---------------------------- MODULE Spec2Model ----------------------------
(***************************************************************************)
(* A model of the follicle joint tool (follicleJntsTool): the type         *)
(* descriptor FolJntType, the FollicleJoint aggregate over a host scene    *)
(* graph, the batch functions of follicleJnts.py and the undo wrapper of   *)
(* follicleJnts_UI.py.                                                     *)
(*                                                                         *)
(* Strings are sequences of one-character strings, so that the character   *)
(* level functions of the source (startswith, partition, replace, the      *)
(* digit scan of splitNumberedName) are computed and not assumed.          *)
(* Attribute values are fixed-point numbers: the integer v stands for      *)
(* v / 100.                                                                *)
(***************************************************************************)
EXTENDS Integers, Sequences, FiniteSets, TLC

VARIABLES
    typeIn,      \* the typeString handed to FolJntType
    typeOut,     \* the FolJntType instance, or the failure of its construction
    scene,       \* the host scene graph: nodes, connections, attributes
    made,        \* the units created by FollicleJoint.new, in creation order
    last,        \* outcome of the most recent engine call
    wrappers,    \* undoableCaller.wrappersList: the noArgs flag of each wrapper
    openChunks,  \* the host's count of open undo chunks
    chunkLog,    \* undo and call events of the most recent runUndoable
    triggers,    \* number of runUndoable calls so far
    errorsPosted,\* number of deferred host error messages posted so far
    callerSaw,   \* what the most recent runUndoable handed to its caller
    panel,       \* the UI panel: its dock placement and the values of its controls
    settings,    \* the QSettings store of the tool: a value for each key it holds
    dock,        \* the flags the panel keeps for its docking fixes, and what ran
    eventQueue,  \* the host's queue of posted events for the dock parent
    callIn,      \* the arguments handed to a module-level function
    callOut      \* what the function returned or raised

vars == <<typeIn, typeOut, scene, made, last,
          wrappers, openChunks, chunkLog, triggers, errorsPosted, callerSaw,
          panel, settings, dock, eventQueue, callIn, callOut>>

typeVars == <<typeIn, typeOut>>
sceneVars == <<scene, made, last>>
undoVars == <<wrappers, openChunks, chunkLog, triggers, errorsPosted, callerSaw>>
panelVars == <<panel, settings, dock, eventQueue>>
callVars == <<callIn, callOut>>

-----------------------------------------------------------------------------
(* Bounds of the model *)

MaxTypeLen == 5
MaxWrappers == 2
MaxUnits == 2
MaxStrays == 1
MaxObjs == 2
MaxTriggers == 6

-----------------------------------------------------------------------------
(* Generic helpers *)

Range(s) == {s[i] : i \in 1..Len(s)}

SeqsUpTo(S, n) == UNION {[1..k -> S] : k \in 0..n}

Last(s) == s[Len(s)]

StartsWith(s, p) ==
    /\ Len(p) <= Len(s)
    /\ SubSeq(s, 1, Len(p)) = p

\* index of the first occurrence of p in s at or after position from; 0 if none
RECURSIVE FindFrom(_, _, _)
FindFrom(s, p, from) ==
    IF from + Len(p) - 1 > Len(s) THEN 0
    ELSE IF SubSeq(s, from, from + Len(p) - 1) = p THEN from
    ELSE FindFrom(s, p, from + 1)

\* str.partition(p)[0]
PartitionHead(s, p) ==
    LET i == FindFrom(s, p, 1)
    IN  IF i = 0 THEN s ELSE SubSeq(s, 1, i - 1)

\* str.rpartition(p)[0]: the text before the last occurrence of p, "" if none
RECURSIVE RFindFrom(_, _, _)
RFindFrom(s, p, from) ==
    IF from < 1 THEN 0
    ELSE IF from + Len(p) - 1 <= Len(s) /\ SubSeq(s, from, from + Len(p) - 1) = p
         THEN from
    ELSE RFindFrom(s, p, from - 1)

RPartitionHead(s, p) ==
    LET i == RFindFrom(s, p, Len(s))
    IN  IF i = 0 THEN <<>> ELSE SubSeq(s, 1, i - 1)

-----------------------------------------------------------------------------
(* FolJntType: the type descriptor *)

TypeChars == {"t", "j", "f", "/", "-"}

T_F   == <<"t", "/", "f">>
T_FJ  == <<"t", "/", "f", "-", "j">>
TJ_F  == <<"t", "-", "j", "/", "f">>
J_F   == <<"j", "/", "f">>

validTypes == {T_F, T_FJ, TJ_F, J_F}

\* the unassigned typeString (None); the empty string is as falsy as None
NoType == <<>>

hasTransform(ts) == "t" \in Range(ts)

hasJoint(ts) == "j" \in Range(ts)

\* topTransform as a slip would have it: the joint on top wherever the
\* follicle shape is under the joint
topTransformByFollicleParent(ts) ==
    IF hasJoint(ts) /\ (~hasTransform(ts) \/ StartsWith(ts, <<"t", "-", "j">>))
    THEN "j"
    ELSE IF hasTransform(ts) THEN "t"
    ELSE "AttributeError"

topTransform(ts) ==
    IF hasTransform(ts) THEN "t"
    ELSE IF hasJoint(ts) THEN "j"
    ELSE "AttributeError"

\* follicleParent taking the first character before '/f' instead of the last
follicleParentFirst(ts) ==
    LET head == PartitionHead(ts, <<"/", "f">>)
    IN  IF head = <<>> THEN "IndexError" ELSE Head(head)

follicleParent(ts) ==
    LET head == PartitionHead(ts, <<"/", "f">>)
    IN  IF head = <<>> THEN "IndexError" ELSE Last(head)

\* FolJntType.set on the instance d: the assertion, then the default control node
TypeSet(d, ts) ==
    IF ts \notin validTypes
    THEN [d EXCEPT !.raised = "AssertionError"]
    ELSE [raised |-> "none", typeString |-> ts,
          controlNode |-> IF hasJoint(ts) THEN "j" ELSE "f"]

\* FolJntType(typeString): set is only called for a truthy typeString
FolJntType(ts) ==
    LET blank == [raised |-> "none", typeString |-> NoType, controlNode |-> "none"]
    IN  IF ts = NoType THEN blank ELSE TypeSet(blank, ts)

\* the typeString property: AttributeError while nothing has been assigned
TypeStringOf(d) ==
    IF d.typeString = NoType THEN "AttributeError" ELSE d.typeString

TypeStrings == SeqsUpTo(TypeChars, MaxTypeLen)

NotBuilt == [raised |-> "none", typeString |-> NoType, controlNode |-> "unbuilt"]

TypeInit ==
    /\ typeIn \in TypeStrings
    /\ typeOut = NotBuilt

TypeIdle ==
    /\ typeIn = NoType
    /\ typeOut = NotBuilt

\* typeOut = FolJntType(typeIn)
Construct ==
    /\ typeOut = NotBuilt
    /\ typeOut' = FolJntType(typeIn)
    /\ UNCHANGED <<typeIn, sceneVars, undoVars, panelVars, callVars>>

\* typeOut.typeString = ts, on a built instance
SetTypeString ==
    /\ typeOut # NotBuilt
    /\ typeOut.raised = "none"
    /\ \E ts \in validTypes \cup {NoType, <<"f">>, <<"j", "/", "t">>} :
          /\ typeIn' = ts
          /\ typeOut' = TypeSet(typeOut, ts)
    /\ UNCHANGED <<sceneVars, undoVars, panelVars, callVars>>

TypeNext ==
    \/ Construct
    \/ SetTypeString

-----------------------------------------------------------------------------
(* The type descriptor on its own: every string up to MaxTypeLen characters *)
(* is handed to the constructor, and a built descriptor is assigned to.     *)

SceneIdle ==
    /\ scene = [nodes |-> <<>>, conns |-> {}, vals |-> <<>>, locked |-> {},
                sel |-> <<>>]
    /\ made = <<>>
    /\ last = [op |-> "none"]

UndoIdle ==
    /\ wrappers = <<>>
    /\ openChunks = 0
    /\ chunkLog = <<>>
    /\ triggers = 0
    /\ errorsPosted = 0
    /\ callerSaw = [outcome |-> "none", result |-> "none"]

DockIdle ==
    /\ dock = <<>>
    /\ eventQueue = <<>>

PanelIdle ==
    /\ panel = <<>>
    /\ settings = <<>>
    /\ DockIdle

CallIdle ==
    /\ callIn = <<>>
    /\ callOut = <<>>

TypeSpecInit == TypeInit /\ SceneIdle /\ UndoIdle /\ PanelIdle /\ CallIdle

SpecType == TypeSpecInit /\ [][TypeNext]_vars

\* what a descriptor reports: hasTransform, hasJoint, topTransform,
\* follicleParent, controlNode
Reports(d) ==
    <<hasTransform(d.typeString), hasJoint(d.typeString),
      topTransform(d.typeString), follicleParent(d.typeString), d.controlNode>>

\* a descriptor that holds a type string
Assigned == typeOut # NotBuilt /\ typeOut.typeString # NoType

\* the table of the specification, section 4.2
StatedTable ==
    [ts \in validTypes |->
        CASE ts = T_F  -> <<TRUE, FALSE, "t", "t", "f">>
          [] ts = T_FJ -> <<TRUE, TRUE, "t", "t", "j">>
          [] ts = TJ_F -> <<TRUE, TRUE, "j", "j", "j">>
          [] ts = J_F  -> <<FALSE, TRUE, "j", "j", "j">>]

\* the table with the top transform of t-j/f being the transform
AmendedTable == [StatedTable EXCEPT ![TJ_F][3] = "t"]

\* C2 as stated: a descriptor that holds a valid type string reports the
\* values of the table of section 4.2, and the construction from any string
\* outside the four valid ones fails.
C2_TableAsStated ==
    /\ Assigned => Reports(typeOut) = StatedTable[typeOut.typeString]
    /\ (typeOut # NotBuilt /\ typeIn \notin validTypes)
          => typeOut.raised # "none"

\* C2 amended: a descriptor that holds a type string holds one of the four
\* and reports the values of the table, where t-j/f has top transform t (the
\* follicle drives the transform); a descriptor built from or assigned a valid
\* string holds it; building from or assigning any non-empty string outside
\* the four fails with the assertion; building from the empty string gives a
\* descriptor that holds no type string yet.
C2_Table ==
    /\ Assigned =>
          /\ typeOut.typeString \in validTypes
          /\ Reports(typeOut) = AmendedTable[typeOut.typeString]
    /\ (typeOut # NotBuilt /\ typeIn \in validTypes) =>
          typeOut.raised = "none" /\ typeOut.typeString = typeIn
    /\ (typeOut # NotBuilt /\ typeIn \notin validTypes \cup {NoType}) =>
          typeOut.raised = "AssertionError"
    /\ (typeOut # NotBuilt /\ typeIn = NoType /\ typeOut.raised = "none") =>
          TypeStringOf(typeOut) = "AttributeError"

\* a descriptor built for t-j/f
C2_Witness ==
    /\ Assigned
    /\ typeIn = TJ_F
    /\ typeOut.raised = "none"
    /\ Reports(typeOut) = <<TRUE, TRUE, "t", "j", "j">>

-----------------------------------------------------------------------------
(* Numbered names: splitNumberedName, joinNumberedName *)

Digits == <<"0", "1", "2", "3", "4", "5", "6", "7", "8", "9">>

DigitChars == Range(Digits)

DigitVal(c) == CHOOSE d \in 0..9 : Digits[d + 1] = c

\* str(n) for n >= 0
RECURSIVE NumStr(_)
NumStr(n) ==
    IF n < 10 THEN <<Digits[n + 1]>>
    ELSE NumStr(n \div 10) \o <<Digits[(n % 10) + 1]>>

\* int(s) for a string of digits
RECURSIVE StrNum(_)
StrNum(s) ==
    IF s = <<>> THEN 0
    ELSE 10 * StrNum(SubSeq(s, 1, Len(s) - 1)) + DigitVal(Last(s))

\* "{num:0>{pad}}".format(num=n, pad=pad)
RECURSIVE ZeroPad(_, _)
ZeroPad(s, pad) == IF Len(s) >= pad THEN s ELSE ZeroPad(<<"0">> \o s, pad)

\* the scan of splitNumberedName from character k down to 1; i is the index
\* into splitStrs (1 prefix, 2 number, 3 suffix)
RECURSIVE SplitScan(_, _, _, _, _, _)
SplitScan(name, findChars, k, i, digitLast, parts) ==
    IF k = 0 THEN parts
    ELSE LET c == name[k]
             found == c \in findChars
             i2 == IF i > 1 /\ found /\ ~digitLast THEN i - 1
                   ELSE IF i > 1 /\ ~found /\ digitLast THEN i - 1
                   ELSE i
             dl2 == IF i > 1 THEN found ELSE digitLast
         IN  SplitScan(name, findChars, k - 1, i2, dl2,
                       [parts EXCEPT ![i2] = <<c>> \o parts[i2]])

\* the scan alone, without the return of the whole name as the prefix
splitNumberedNameScanOnly(name, findChars) ==
    SplitScan(name, findChars, Len(name), 3, FALSE, <<<<>>, <<>>, <<>>>>)

splitNumberedName(name, findChars) ==
    LET parts == SplitScan(name, findChars, Len(name), 3, FALSE,
                           <<<<>>, <<>>, <<>>>>)
    IN  IF parts[2] = <<>> THEN <<name, <<>>, <<>>>> ELSE parts

\* num = NoNum stands for None / ''
NoNum == -1

\* the join with the number as it is, without spacer zeroes
joinNumberedNameUnpadded(prefix, num, suffix, numPadding, infix) ==
    prefix \o infix \o (IF num = NoNum THEN <<>> ELSE NumStr(num)) \o suffix

\* joinNumberedName without nameDef; the nameFormat "{pre}<infix>{num}{suf}"
\* is given by its infix
joinNumberedName(prefix, num, suffix, numPadding, infix) ==
    LET numStr == IF num = NoNum THEN <<>> ELSE ZeroPad(NumStr(num), numPadding)
    IN  prefix \o infix \o numStr \o suffix

\* the num argument: None, a number, or a string ('' counts as None, any
\* other string goes through int(), which drops its padding)
NumArg(arg) ==
    CASE arg.t = "none" -> NoNum
      [] arg.t = "int" -> arg.v
      [] arg.t = "str" -> IF arg.v = <<>> THEN NoNum ELSE StrNum(arg.v)

\* nameDef.replace('#', numStr)
RECURSIVE ReplaceHash(_, _)
ReplaceHash(nameDef, numStr) ==
    IF nameDef = <<>> THEN <<>>
    ELSE (IF Head(nameDef) = "#" THEN numStr ELSE <<Head(nameDef)>>)
            \o ReplaceHash(Tail(nameDef), numStr)

\* joinNumberedName(nameDef=nameDef, num=num, numPadding=numPadding) with a
\* nameDef that is not empty: the name, or the TypeError
joinNumberedNameDef(nameDef, num, numPadding) ==
    IF "#" \notin Range(nameDef) THEN <<"TypeError">>
    ELSE ReplaceHash(nameDef, IF num = NoNum THEN <<>>
                              ELSE ZeroPad(NumStr(num), numPadding))

\* FolJntType.renameFormats: 'main' "{pre}{num}{suf}", 'j' "{pre}_J_{num}{suf}"
renameFormats == [main |-> <<>>, j |-> <<"_", "J", "_">>]

-----------------------------------------------------------------------------
(* The host scene: DAG and DG nodes, attribute values, connections *)

\* node id 0 is "no node" (None, or the world as a parent)
Nobody == 0

sShape == <<"S", "h", "a", "p", "e">>
sFollicle == <<"f", "o", "l", "l", "i", "c", "l", "e">>
sJoint == <<"j", "o", "i", "n", "t">>
sTransform == <<"t", "r", "a", "n", "s", "f", "o", "r", "m">>
sAdd == <<"a", "d", "d">>
sMult == <<"m", "u", "l", "t">>

Ids(sc) == 1..Len(sc.nodes)

Alive(sc) == {n \in Ids(sc) : sc.nodes[n].typ # "deleted"}

NameOf(sc, n) == sc.nodes[n].name

TypeOf(sc, n) == sc.nodes[n].typ

ParentOf(sc, n) == sc.nodes[n].par

\* pm.objExists(name)
objExists(sc, name) == \E n \in Alive(sc) : NameOf(sc, n) = name

ChildrenOf(sc, p, typ) ==
    {n \in Alive(sc) : ParentOf(sc, n) = p /\ TypeOf(sc, n) = typ}

\* the first node of a listing: the host lists nodes in creation order
First(S) == IF S = {} THEN Nobody ELSE CHOOSE n \in S : \A m \in S : n <= m

\* the smallest number from n on for which the host finds base+number unused
RECURSIVE FreeNumber(_, _, _, _)
FreeNumber(sc, base, tail, n) ==
    IF objExists(sc, base \o NumStr(n) \o tail)
    THEN FreeNumber(sc, base, tail, n + 1)
    ELSE n

\* the host's resolution of a requested node name: a '#' becomes the first
\* number that makes the name unique, a taken name gets a number appended
HostName(sc, name) ==
    IF "#" \in Range(name)
    THEN LET Numbered(p) == p[1] \o NumStr(FreeNumber(sc, p[1], p[3], 1)) \o p[3]
         IN  Numbered(splitNumberedName(name, {"#"}))
    ELSE IF objExists(sc, name)
    THEN name \o NumStr(FreeNumber(sc, name, <<>>, 1))
    ELSE name

HasConn(sc, n, a) == \E c \in sc.conns : c.dn = n /\ c.da = a

SourceOf(sc, n, a) == CHOOSE c \in sc.conns : c.dn = n /\ c.da = a

\* hasattr(node, attr) / pm.attributeQuery(attr, n=node, ex=1)
HasAttr(sc, n, a) == <<n, a>> \in DOMAIN sc.vals

\* node.getShape(): the first shape under a transform or joint
getShape(sc, n) ==
    IF TypeOf(sc, n) \notin {"transform", "joint"} THEN Nobody
    ELSE First({c \in Alive(sc) : /\ ParentOf(sc, c) = n
                                  /\ TypeOf(sc, c) \in {"follicle", "nurbsSurface"}})

\* the node that node.<attr> resolves to: the node itself, or else its shape
\* (the host library looks an attribute up on the shape of a transform that
\* lacks it); Nobody when hasattr(node, attr) is false
AttrNode(sc, n, a) ==
    IF n = Nobody THEN Nobody
    ELSE IF HasAttr(sc, n, a) THEN n
    ELSE IF getShape(sc, n) # Nobody /\ HasAttr(sc, getShape(sc, n), a)
    THEN getShape(sc, n)
    ELSE Nobody

\* fixed-point product: the factors and the product are in hundredths
Mul(a, b) == (a * b) \div 100

\* attr.get(): the value the dependency graph gives the attribute
RECURSIVE Get(_, _, _)
Get(sc, n, a) ==
    IF HasConn(sc, n, a)
    THEN LET c == SourceOf(sc, n, a) IN Get(sc, c.sn, c.sa)
    ELSE IF a = "o" /\ TypeOf(sc, n) = "addDoubleLinear"
    THEN Get(sc, n, "i1") + Get(sc, n, "i2")
    ELSE IF a = "o" /\ TypeOf(sc, n) = "multDoubleLinear"
    THEN Mul(Get(sc, n, "i1"), Get(sc, n, "i2"))
    ELSE sc.vals[<<n, a>>]

\* attr.set(v) raises RuntimeError on a locked or connected attribute
CanSet(sc, n, a) == <<n, a>> \notin sc.locked /\ ~HasConn(sc, n, a)

SetVal(sc, n, a, v) == [sc EXCEPT !.vals[<<n, a>>] = v]

\* pm.createNode(typ, p=par, n=name): the new node has id Len(nodes) + 1
CreateNode(sc, typ, par, name, attrs) ==
    LET id == Len(sc.nodes) + 1
    IN  [sc EXCEPT
            !.nodes = Append(@, [typ |-> typ, par |-> par,
                                 name |-> HostName(sc, name)]),
            !.vals = [k \in {<<id, a>> : a \in DOMAIN attrs} |-> attrs[k[2]]] @@ @]

\* pm.addAttr(node, ln=attr): a new attribute is 0
AddAttr(sc, n, a) == [sc EXCEPT !.vals = (<<n, a>> :> 0) @@ @]

\* pm.connectAttr(src, dst)
Connect(sc, sn, sa, dn, da) ==
    [sc EXCEPT !.conns = @ \cup {[sn |-> sn, sa |-> sa, dn |-> dn, da |-> da]}]

\* pm.rename(node, name)
HostRename(sc, n, name) == [sc EXCEPT !.nodes[n].name = HostName(sc, name)]

\* pm.parent(node, par)
Reparent(sc, n, p) == [sc EXCEPT !.nodes[n].par = p]

\* pm.delete(node)
Delete(sc, n) ==
    [sc EXCEPT !.nodes[n].typ = "deleted",
               !.conns = {c \in @ : c.sn # n /\ c.dn # n}]

\* node.outputs(t=types, exactType=True)
Outputs(sc, n, types) ==
    {c.dn : c \in {d \in sc.conns : d.sn = n /\ TypeOf(sc, d.dn) \in types}}

-----------------------------------------------------------------------------
(* FollicleJoint: the aggregate over a unit's nodes *)

\* FollicleJoint.__init__: no nodes, type None
NewAggregate ==
    [xfm |-> Nobody, fol |-> Nobody, jnt |-> Nobody,
     hasType |-> FALSE, type |-> FolJntType(NoType)]

\* controlObj: the node that has the uv parameters
controlObj(agg) ==
    IF agg.hasType /\ agg.type.controlNode \in {"f", "t", "j"}
    THEN CASE agg.type.controlNode = "f" -> agg.fol
           [] agg.type.controlNode = "t" -> agg.xfm
           [] agg.type.controlNode = "j" -> agg.jnt
    ELSE Nobody

\* nameObj: the node that carries the name itself
nameObj(agg) ==
    IF ~agg.hasType THEN Nobody
    ELSE IF topTransform(agg.type.typeString) = "t" THEN agg.xfm
    ELSE agg.jnt

\* topObj
topObj(agg) == IF agg.xfm # Nobody THEN agg.xfm ELSE agg.jnt

\* allDagObjs: xfm, jnt, fol, those that exist
allDagObjs(agg) ==
    SelectSeq(<<agg.xfm, agg.jnt, agg.fol>>, LAMBDA n : n # Nobody)

\* uvDriverAttrs
uvDriverAttrs(sc, agg) ==
    /\ controlObj(agg) # Nobody
    /\ HasAttr(sc, controlObj(agg), "ou")
    /\ HasAttr(sc, controlObj(agg), "ov")

-----------------------------------------------------------------------------
(* FollicleJoint.rename *)

\* name=None: keep the name, reformat it
NoneName == <<"None">>

sTempJunk == <<"v", "a", "r", "i", "o", "u", "s", "1", "_", "_", "_", "t", "e", "m", "p", "j", "u", "n", "k", "3">>

\* the split of the requested name: prefix, suffix, number and its width
ParseName(name, current) ==
    LET Hashed(p) ==
            [pre |-> p[1], suf |-> p[3], hasNum |-> TRUE, num |-> 1,
             numBuffer |-> 1]
        Scanned(p) ==
            IF p[2] # <<>>
            THEN [pre |-> p[1], suf |-> p[3], hasNum |-> TRUE,
                  num |-> StrNum(p[2]), numBuffer |-> Len(p[2])]
            ELSE [pre |-> p[1], suf |-> p[3], hasNum |-> FALSE, num |-> 1,
                  numBuffer |-> 0]
    IN  IF name # NoneName /\ "#" \in Range(name)
        THEN Hashed(splitNumberedName(name, {"#"}))
        ELSE Scanned(splitNumberedName(
                        IF name = NoneName THEN current ELSE name, DigitChars))

\* objs: 'main' is the name object, 'j' the joint when it is another node
RenameRoles(agg) ==
    {"main"} \cup (IF agg.jnt # Nobody /\ nameObj(agg) # agg.jnt
                   THEN {"j"} ELSE {})

RoleNode(agg, r) == IF r = "main" THEN nameObj(agg) ELSE agg.jnt

RoleNames(roles, p, num, formats) ==
    [r \in roles |-> joinNumberedName(p.pre, num, p.suf, p.numBuffer, formats[r])]

\* a check of the name of the main role alone
anyObjsExistMainOnly(sc, names) == objExists(sc, names["main"])

\* _anyObjsExist
anyObjsExist(sc, names) == \E r \in DOMAIN names : objExists(sc, names[r])

\* the while loop of rename: new names from num on until none exists
RECURSIVE FreeNames(_, _, _, _, _, _)
FreeNames(sc, roles, p, formats, names, num) ==
    IF anyObjsExist(sc, names)
    THEN FreeNames(sc, roles, p, formats, RoleNames(roles, p, num, formats),
                   num + 1)
    ELSE names

RECURSIVE RenameAll(_, _, _, _)
RenameAll(sc, agg, todo, names) ==
    IF todo = <<>> THEN sc
    ELSE RenameAll(HostRename(sc, RoleNode(agg, Head(todo)), names[Head(todo)]),
                   agg, Tail(todo), names)

RoleOrder(roles) == SelectSeq(<<"main", "j">>, LAMBDA r : r \in roles)

\* the follicle shape is named after its parent, Maya style
RenameShape(sc, agg) ==
    IF agg.fol = Nobody THEN sc
    ELSE LET folCorrect == NameOf(sc, ParentOf(sc, agg.fol)) \o sShape
         IN  IF NameOf(sc, agg.fol) = folCorrect THEN sc
             ELSE IF ~objExists(sc, folCorrect)
             THEN HostRename(sc, agg.fol, folCorrect)
             ELSE HostRename(sc, agg.fol, folCorrect \o <<"#">>)

\* rename(name, dontApply, skipPreRename, renameFormats): the scene after the
\* call, what it raised, and the names it returns
rename(sc, agg, name, dontApply, skipPreRename, formats) ==
    IF agg.hasType /\ agg.type.typeString = NoType
    THEN [sc |-> sc, raised |-> "AttributeError", newNames |-> <<>>]
    ELSE IF nameObj(agg) = Nobody
    THEN [sc |-> sc, raised |-> "StandardError", newNames |-> <<>>]
    ELSE
    \* the steps below are local operators, so that each takes the scene of
    \* the step before it: the call starts at the IN and runs upwards
    LET roles == RenameRoles(agg)
        order == RoleOrder(roles)
        current == [r \in roles |-> NameOf(sc, RoleNode(agg, r))]
        Applied(pre, names) ==
            [sc |-> IF dontApply THEN pre
                    ELSE RenameShape(RenameAll(pre, agg, order, names), agg),
             raised |-> "none", newNames |-> names]
        Searched(pre, p, first) ==
            Applied(pre, FreeNames(pre, roles, p, formats, first,
                                   IF p.hasNum THEN p.num + 1 ELSE p.num))
        PreRenamed(p, first) ==
            IF first = current
            THEN [sc |-> sc, raised |-> "none", newNames |-> first]
            ELSE Searched(IF skipPreRename THEN sc
                          ELSE RenameAll(sc, agg, order,
                                  [r \in roles |-> current[r] \o sTempJunk]),
                          p, first)
        Parsed(p) == PreRenamed(p, RoleNames(roles, p, p.num, formats))
    IN  Parsed(ParseName(name, NameOf(sc, nameObj(agg))))

-----------------------------------------------------------------------------
(* FollicleJoint.getFollicleJoint: discovery *)

\* the follicle located from one candidate object, Nobody if there is none
LocateFollicle(sc, obj) ==
    LET typ == TypeOf(sc, obj)
        shapes == ChildrenOf(sc, obj, "follicle")
        siblings == IF ParentOf(sc, obj) = Nobody THEN {}
                    ELSE ChildrenOf(sc, ParentOf(sc, obj), "follicle")
        jnts == ChildrenOf(sc, obj, "joint")
    IN  IF typ = "follicle" THEN obj
        ELSE IF typ \notin {"transform", "joint"} THEN Nobody
        ELSE IF shapes # {} THEN First(shapes)
        ELSE IF typ = "joint" THEN First(siblings)
        ELSE IF jnts # {} THEN First(ChildrenOf(sc, First(jnts), "follicle"))
        ELSE Nobody

\* possibleItem and folFormat for a located follicle
Identify(sc, fol) ==
    LET par == ParentOf(sc, fol)
        parTyp == IF par = Nobody THEN "none" ELSE TypeOf(sc, par)
        checkOutputXforms == Outputs(sc, fol, {"transform"})
        jntPar == IF par = Nobody THEN Nobody ELSE ParentOf(sc, par)
        sibJnt == ChildrenOf(sc, par, "joint")
        possibleItem ==
            IF parTyp = "joint"
            THEN IF jntPar # Nobody /\ jntPar \in checkOutputXforms
                 THEN [xfm |-> jntPar, jnt |-> par, fmt |-> TJ_F]
                 ELSE [xfm |-> Nobody, jnt |-> par, fmt |-> J_F]
            ELSE IF parTyp = "transform"
            THEN IF sibJnt # {}
                 THEN [xfm |-> par, jnt |-> First(sibJnt), fmt |-> T_FJ]
                 ELSE [xfm |-> par, jnt |-> Nobody, fmt |-> T_F]
            ELSE [xfm |-> Nobody, jnt |-> Nobody, fmt |-> NoType]
        checkFolOutputs == Outputs(sc, fol, {"transform", "joint"})
        Checked(item) ==
            [item EXCEPT !.fmt =
                IF \/ item.xfm # Nobody /\ item.xfm \in checkFolOutputs
                   \/ item.jnt # Nobody /\ item.jnt \in checkFolOutputs
                THEN @ ELSE NoType]
    IN  Checked(possibleItem)

\* the for loop: the first candidate for which a follicle is located ends it
RECURSIVE FirstWithFollicle(_, _)
FirstWithFollicle(sc, objs) ==
    IF objs = <<>> THEN Nobody
    ELSE IF LocateFollicle(sc, Head(objs)) # Nobody
    THEN LocateFollicle(sc, Head(objs))
    ELSE FirstWithFollicle(sc, Tail(objs))

\* the aggregate after the loop and the control node refinement
Populate(sc, agg, objs) ==
    LET hasUV(n) == /\ AttrNode(sc, n, "pu") # Nobody
                    /\ AttrNode(sc, n, "pv") # Nobody
        Refined(found) ==
            IF ~found.hasType THEN found
            ELSE IF hasUV(found.jnt) THEN [found EXCEPT !.type.controlNode = "j"]
            ELSE IF hasUV(found.xfm) THEN [found EXCEPT !.type.controlNode = "t"]
            ELSE found
        Found(fol, item) ==
            [xfm |-> item.xfm, fol |-> fol, jnt |-> item.jnt,
             hasType |-> TRUE, type |-> FolJntType(item.fmt)]
        Located(fol) ==
            Refined(IF fol = Nobody THEN agg ELSE Found(fol, Identify(sc, fol)))
    IN  Located(FirstWithFollicle(sc, objs))

\* getFollicleJoint(folObject, strict): the aggregate, and "True", "None" or
\* the exception that leaves the method
getFollicleJoint(sc, agg, objs, strict) ==
    LET Outcome(a) ==
            [agg |-> a,
             result |->
                IF ~a.hasType
                THEN (IF strict THEN "StandardError" ELSE "None")
                ELSE IF TypeStringOf(a.type) = "AttributeError"
                THEN "AttributeError"
                ELSE IF a.type.typeString \notin validTypes \/ a.fol = Nobody
                THEN (IF strict THEN "StandardError" ELSE "None")
                ELSE "True"]
    IN  Outcome(Populate(sc, agg, objs))

\* FollicleJoint(folObject): __init__ with set(folObject), which is strict
FollicleJoint(sc, obj) == getFollicleJoint(sc, NewAggregate, <<obj>>, TRUE)

-----------------------------------------------------------------------------
(* normalisedNurbsUV and FollicleJoint.new *)

\* a normalisation that rescales even when only the warning is asked for
normalisedNurbsUVRescaling(sc, patch, uv, warningOnly) ==
    LET minU == Get(sc, patch, "minValueU")
        maxU == Get(sc, patch, "maxValueU")
        minV == Get(sc, patch, "minValueV")
        maxV == Get(sc, patch, "maxValueV")
    IN  IF TypeOf(sc, patch) # "nurbsSurface" THEN <<"StandardError">>
        ELSE <<(uv[1] * 100) \div (maxU - minU) + minU,
               (uv[2] * 100) \div (maxV - minV) + minV>>

\* normalisedNurbsUV(patch, uv, warningOnly): the uv, or the error
normalisedNurbsUV(sc, patch, uv, warningOnly) ==
    LET minU == Get(sc, patch, "minValueU")
        maxU == Get(sc, patch, "maxValueU")
        minV == Get(sc, patch, "minValueV")
        maxV == Get(sc, patch, "maxValueV")
    IN  IF TypeOf(sc, patch) # "nurbsSurface" THEN <<"StandardError">>
        ELSE IF (minU = 0 /\ maxU = 100 /\ minV = 0 /\ maxV = 100) \/ warningOnly
        THEN uv
        ELSE <<(uv[1] * 100) \div (maxU - minU) + minU,
               (uv[2] * 100) \div (maxV - minV) + minV>>

sFolHash == <<"_", "f", "o", "l", "#">>
sAddOffset == <<"a", "d", "d", "O", "f", "f", "s", "e", "t">>

\* the add node and, for a non-zero ratio, the mult node that give the
\* follicle parameter p<axis> the sum of the base and the scaled offset
WireAxis(sc, ctrl, fol, nameBase, axis, ratio) ==
    LET pa == IF axis = 1 THEN "pu" ELSE "pv"
        oa == IF axis = 1 THEN "ou" ELSE "ov"
        nodeName == nameBase \o sAddOffset
                       \o <<IF axis = 1 THEN "U" ELSE "V", "_", "#">>
        offsetAdd == Len(sc.nodes) + 1
        offsetMult == offsetAdd + 1
        Wired(s) ==
            Connect(
              IF ratio # 0
              THEN Connect(Connect(s, ctrl, pa, offsetAdd, "i1"),
                           offsetMult, "o", offsetAdd, "i2")
              ELSE Connect(Connect(s, ctrl, pa, offsetAdd, "i1"),
                           ctrl, oa, offsetAdd, "i2"),
              offsetAdd, "o", fol, pa)
        Scaled(s) ==
            IF ratio # 0
            THEN Connect(CreateNode(s, "multDoubleLinear", Nobody, nodeName,
                                    [i1 |-> 0, i2 |-> ratio]),
                         ctrl, oa, offsetMult, "i1")
            ELSE s
    IN  Wired(Scaled(CreateNode(sc, "addDoubleLinear", Nobody, nodeName,
                                [i1 |-> 0, i2 |-> 0])))

\* new(patch, name, uv, folType, jntRadius, attrs, uvDriverRatio) with
\* normaliseUV as given; name = <<>> asks for the default name, and folType
\* is a non-empty string.
\* The result is the scene, the populated aggregate and what was raised.
new(sc, patch, name, uv, folType, jntRadius, attrs, ratio, normaliseUV) ==
    LET patchIsNurb == TypeOf(sc, patch) = "nurbsSurface"
        selfUV == IF patchIsNurb
                  THEN normalisedNurbsUV(sc, patch, uv, ~normaliseUV)
                  ELSE uv
        type == FolJntType(folType)
        ts == type.typeString
        nm == IF name = <<>>
              THEN NameOf(sc, ParentOf(sc, patch)) \o sFolHash ELSE name
        folXform == Len(sc.nodes) + 1
        fol == folXform + 1
        xfm == IF hasTransform(ts) THEN folXform ELSE Nobody
        jnt == IF hasJoint(ts) THEN fol + 1 ELSE Nobody
        ctrlNode == IF type.controlNode = "j" THEN jnt ELSE xfm
        nameBase == RPartitionHead(nm, <<"_">>)
        paramObj == IF attrs THEN ctrlNode ELSE fol
        top == IF topTransform(ts) = "j" THEN jnt ELSE folXform
        self == [xfm |-> xfm, fol |-> fol, jnt |-> jnt,
                 hasType |-> TRUE, type |-> type]
        \* The steps are local operators, so that each takes the scene of the
        \* step before it: the call starts at the IN and runs upwards.
        \* self.set(fol), and what new hands back
        Populated(s, set) ==
            [sc |-> s, agg |-> set.agg,
             raised |-> IF set.result = "True" THEN "none" ELSE set.result]
        Discovered(s) == Populated(s, getFollicleJoint(s, self, <<fol>>, TRUE))
        \* self.rename(name, skipPreRename=True)
        Named(s) ==
            Discovered(rename(s, self, nm, FALSE, TRUE, renameFormats).sc)
        \* paramObj.parameterU.set, paramObj.parameterV.set
        Placed(s, suv) ==
            Named(SetVal(SetVal(s, paramObj, "pu", suv[1]),
                         paramObj, "pv", suv[2]))
        \* the follicle drives the top transform and reads the patch
        Driven(s) ==
            Placed(Connect(Connect(Connect(Connect(s,
                     fol, "outTranslate", top, "t"),
                     fol, "outRotate", top, "r"),
                     patch, "worldMatrix", fol, "inputWorldMatrix"),
                     patch, IF patchIsNurb THEN "local" ELSE "outMesh",
                     fol, IF patchIsNurb THEN "inputSurface" ELSE "inputMesh"),
                   selfUV)
        \* the follicle goes under the joint where the type says so
        Parented(s) ==
            Driven(IF follicleParent(ts) # "j" THEN s
                   ELSE IF hasTransform(ts) THEN Reparent(s, fol, jnt)
                   ELSE Delete(Reparent(s, fol, jnt), folXform))
        Hidden(s) ==
            IF type.controlNode = "j" THEN SetVal(s, fol, "visibility", 0)
            ELSE s
        \* the control attributes and their wiring
        Controlled(s) ==
            Parented(
              IF ~attrs THEN s
              ELSE Hidden(
                     WireAxis(
                       WireAxis(
                         AddAttr(AddAttr(AddAttr(AddAttr(s, ctrlNode, "pu"),
                                 ctrlNode, "pv"), ctrlNode, "ou"), ctrlNode, "ov"),
                         ctrlNode, fol, nameBase, 1, ratio[1]),
                       ctrlNode, fol, nameBase, 2, ratio[2])))
        \* the joint
        Jointed(s) ==
            Controlled(
              IF hasJoint(ts)
              THEN CreateNode(s, "joint",
                              IF topTransform(ts) = "t" THEN folXform ELSE Nobody,
                              sJoint \o <<"#">>, [radius |-> jntRadius])
              ELSE s)
    IN  IF type.raised # "none"
        THEN [sc |-> sc, agg |-> NewAggregate, raised |-> "AssertionError"]
        \* the follicle shape and its transform
        ELSE Jointed(
               CreateNode(
                 CreateNode(sc, "transform", Nobody, sFollicle \o <<"#">>, <<>>),
                 "follicle", folXform, sFollicle \o sShape \o <<"#">>,
                 [pu |-> 0, pv |-> 0, visibility |-> 1]))

-----------------------------------------------------------------------------
(* undoableCaller: the undoable wrapper around a UI function *)

\* what the wrapped uiFunction does when called:
\*   "returns"    it returns
\*   "errStr"     it raises an Exception whose args are all strings
\*   "errNonStr"  it raises an Exception with an argument that is no string
\*   "errBase"    it raises a BaseException that is no Exception
CallOutcomes == {"returns", "errStr", "errNonStr", "errBase"}

\* except Exception: exc is stored only for an Exception
ExcStored(outcome) == outcome \in {"errStr", "errNonStr"}

\* '; '.join(excInst.args) raises TypeError on an argument that is no string
MessageFormats(outcome) == outcome # "errNonStr"

\* the events of a wrapper that closes the chunk after the call instead of in
\* a finally block
RunEventsCloseAfterCall(noArgs, outcome) ==
    <<"openChunk", IF noArgs THEN "callNoArgs" ELSE "callWithArgs">>
    \o (IF outcome = "returns" THEN <<"closeChunk">> ELSE <<>>)

\* the events of one runUndoable, in program order
RunEvents(noArgs, outcome) ==
    <<"openChunk", IF noArgs THEN "callNoArgs" ELSE "callWithArgs">>
    \o <<"closeChunk">>
    \o (IF ExcStored(outcome) /\ MessageFormats(outcome)
        THEN <<"evalDeferredError">> ELSE <<>>)

\* what leaves a wrapper whose finally block ends without the return
RunResultNoReturn(outcome) ==
    IF ExcStored(outcome) /\ ~MessageFormats(outcome) THEN "raisedTypeError"
    ELSE IF outcome # "returns" THEN "raisedOriginal"
    ELSE "returnedNone"

\* what leaves runUndoable: the exception of the call is in flight through the
\* finally block (the except clause re-raises it), and the return that ends
\* the finally block discards it, unless the finally block itself raises
\* before it gets there
RunResult(outcome) ==
    IF ExcStored(outcome) /\ ~MessageFormats(outcome) THEN "raisedTypeError"
    ELSE "returnedNone"

ChunksAfter(n, events) ==
    n + Cardinality({i \in 1..Len(events) : events[i] = "openChunk"})
      - Cardinality({i \in 1..Len(events) : events[i] = "closeChunk"})

UndoInit == UndoIdle

\* undoableCaller.__init__
NewWrapper ==
    /\ Len(wrappers) < MaxWrappers
    /\ \E noArgs \in BOOLEAN : wrappers' = Append(wrappers, noArgs)
    /\ UNCHANGED <<openChunks, chunkLog, triggers, errorsPosted, callerSaw>>
    /\ UNCHANGED <<typeVars, panelVars, callVars, sceneVars>>

\* undoableCaller.runUndoable, triggered by the signal of wrapper w
RunUndoable ==
    /\ triggers < MaxTriggers
    /\ \E w \in 1..Len(wrappers), outcome \in CallOutcomes :
          \E events \in {RunEvents(wrappers[w], outcome)} :
              /\ chunkLog' = events
              /\ openChunks' = ChunksAfter(openChunks, events)
              /\ errorsPosted' = errorsPosted
                    + Cardinality({i \in 1..Len(events) :
                                      events[i] = "evalDeferredError"})
              /\ callerSaw' = [outcome |-> outcome, result |-> RunResult(outcome)]
    /\ triggers' = triggers + 1
    /\ UNCHANGED <<wrappers, typeVars, panelVars, callVars, sceneVars>>

UndoNext ==
    \/ NewWrapper
    \/ RunUndoable

UndoSpecInit == UndoInit /\ TypeIdle /\ SceneIdle /\ PanelIdle /\ CallIdle

SpecUndo == UndoSpecInit /\ [][UndoNext]_vars

\* the most recent trigger ran a call that raised
Raised == callerSaw.outcome \in {"errStr", "errNonStr", "errBase"}

Count(events, e) == Cardinality({i \in 1..Len(events) : events[i] = e})

\* C5 as stated: when the wrapped call raises, the wrapper closes the undo
\* chunk, posts the deferred error message and re-raises the original error
\* to its caller.
C5_ReraisesAsStated ==
    Raised =>
        /\ callerSaw.result = "raisedOriginal"
        /\ Count(chunkLog, "closeChunk") = 1
        /\ Count(chunkLog, "evalDeferredError") = 1

\* C5 amended: when the wrapped call raises an Exception whose arguments are
\* strings, the wrapper closes the undo chunk, posts the deferred error
\* message and returns None to its caller: the error does not leave the
\* wrapper. An Exception with an argument that is no string leaves the wrapper
\* as a TypeError, after the chunk is closed and with no message posted; an
\* exception that is no Exception is discarded after the chunk is closed, with
\* no message posted.
C5_Reraises ==
    /\ callerSaw.outcome = "errStr" =>
          /\ callerSaw.result = "returnedNone"
          /\ chunkLog[Len(chunkLog)] = "evalDeferredError"
          /\ chunkLog[Len(chunkLog) - 1] = "closeChunk"
    /\ callerSaw.outcome = "errNonStr" =>
          /\ callerSaw.result = "raisedTypeError"
          /\ chunkLog[Len(chunkLog)] = "closeChunk"
    /\ callerSaw.outcome = "errBase" =>
          /\ callerSaw.result = "returnedNone"
          /\ chunkLog[Len(chunkLog)] = "closeChunk"

\* a trigger whose call raised an Exception, with the message posted
C5_Witness ==
    /\ callerSaw.outcome = "errStr"
    /\ errorsPosted > 0
    /\ Count(chunkLog, "evalDeferredError") = 1

\* C6: every trigger opens exactly one undo chunk before the wrapped call and
\* closes exactly one after it, whether the call returns or raises, and
\* between triggers no undo chunk is open.
C6_OneBoundary ==
    /\ openChunks = 0
    /\ triggers > 0 =>
          /\ Count(chunkLog, "openChunk") = 1
          /\ Count(chunkLog, "closeChunk") = 1
          /\ chunkLog[1] = "openChunk"
          /\ chunkLog[2] \in {"callNoArgs", "callWithArgs"}
          /\ chunkLog[3] = "closeChunk"

\* a second trigger, after a trigger whose call raised, whose call raised
C6_Witness ==
    /\ triggers >= 2
    /\ errorsPosted >= 1
    /\ Raised
    /\ openChunks = 0

-----------------------------------------------------------------------------
(* getFollicleJoints: the aggregates of a list of objects *)

\* the loop over objs: each object is an aggregate already or is discovered;
\* an exception of getFollicleJoint ends the call
RECURSIVE CollectFols(_, _, _, _)
CollectFols(sc, objs, strict, out) ==
    IF objs = <<>> THEN [raised |-> "none", fols |-> out]
    ELSE LET seen == {out[i].fol : i \in 1..Len(out)}
             Collected(got) ==
                 IF got.result \in {"StandardError", "AttributeError"}
                 THEN [raised |-> got.result, fols |-> out]
                 ELSE IF got.result = "True" /\ got.agg.fol \notin seen
                 THEN CollectFols(sc, Tail(objs), strict, Append(out, got.agg))
                 ELSE CollectFols(sc, Tail(objs), strict, out)
         IN  Collected(getFollicleJoint(sc, NewAggregate, <<Head(objs)>>,
                                        strict))

\* pm.ls(sl=1, typ=['transform', 'follicle']); a joint is a kind of transform
SelectedFolObjs(sc) ==
    SelectSeq(sc.sel,
              LAMBDA n : TypeOf(sc, n) \in {"transform", "joint", "follicle"})

\* getFollicleJoints(objs, useSelection, strict): what is raised, with the
\* message that tells the two StandardErrors of the function apart, and the
\* list returned
getFollicleJoints(sc, objs, useSelection, strict) ==
    LET list == IF objs # <<>> THEN objs
                ELSE IF useSelection THEN SelectedFolObjs(sc)
                ELSE <<>>
        Answer(got) ==
            IF got.raised = "StandardError"
            THEN [raised |-> "StandardError: not recognised", fols |-> <<>>]
            ELSE IF got.raised # "none"
            THEN [raised |-> got.raised, fols |-> <<>>]
            ELSE IF got.fols = <<>>
            THEN [raised |-> "StandardError: No follicle setups", fols |-> <<>>]
            ELSE [raised |-> "none", fols |-> got.fols]
    IN  IF list = <<>>
        THEN [raised |-> "StandardError: No objects found", fols |-> <<>>]
        ELSE Answer(CollectFols(sc, list, strict, <<>>))

-----------------------------------------------------------------------------
(* The scene under creation and discovery *)

sPatch == <<"p">>

\* an empty scene with one NURBS patch of parameter range 0..1
EmptyScene == [nodes |-> <<>>, conns |-> {}, vals |-> <<>>, locked |-> {},
               sel |-> <<>>]

PatchScene ==
    CreateNode(CreateNode(EmptyScene, "transform", Nobody, sPatch,
                          [tx |-> 100]),
               "nurbsSurface", 1, sPatch \o sShape,
               [minValueU |-> 0, maxValueU |-> 100,
                minValueV |-> 0, maxValueV |-> 100])

\* the patch shape, the node created last in PatchScene
ThePatch == Len(PatchScene.nodes)

\* uv pairs in hundredths: [0.3, 0.7] and the default [0.5, 0.5]
NewUVs == {<<30, 70>>, <<50, 50>>}

\* the default uvDriverRatio 0.1, in hundredths
DefaultRatio == <<10, 10>>

DefaultRadius == 10

NoLast == [op |-> "none", objs |-> <<>>, strict |-> FALSE, result |-> "none",
           agg |-> NewAggregate, fols |-> <<>>, pre |-> EmptyScene,
           args |-> <<>>, other |-> NewAggregate]

\* the DAG nodes an object list can name
Candidates(sc) ==
    {n \in Alive(sc) : TypeOf(sc, n) \in {"transform", "joint", "follicle"}}

UnitNodes == UNION {made[i].nodes : i \in 1..Len(made)}

Strays(sc) == {n \in Candidates(sc) : n \notin UnitNodes /\ n # 1}

\* The calls that only read the scene are taken from the states whose last
\* call built something: a reading call leaves the scene as it found it, so
\* nothing new is reached after it.
Built == last.op \in {"none", "new", "createNode"}

SceneInit ==
    /\ scene = PatchScene
    /\ made = <<>>
    /\ last = NoLast

\* FollicleJoint().new(patch, name, uv=uv, folType=folType, attrs=attrs,
\* uvDriverRatio=ratio), as long as there are fewer than maxUnits units
NewUnit(maxUnits, names, types, uvs, attrsSet, ratios) ==
    /\ Built
    /\ Len(made) < maxUnits
    /\ \E name \in names, folType \in types, uv \in uvs,
          attrs \in attrsSet, ratio \in ratios :
          \E r \in {new(scene, ThePatch, name, uv, folType, DefaultRadius, attrs,
                       ratio, FALSE)} :
              /\ scene' = r.sc
              /\ made' = Append(made,
                    [folType |-> folType, uv |-> uv, attrs |-> attrs,
                     fol |-> r.agg.fol, agg |-> r.agg,
                     nodes |-> {r.agg.xfm, r.agg.fol, r.agg.jnt} \ {Nobody}])
              /\ last' = [NoLast EXCEPT !.op = "new", !.result = r.raised,
                                        !.agg = r.agg]
    /\ UNCHANGED <<typeVars, panelVars, callVars, undoVars>>

DoNew ==
    NewUnit(MaxUnits, {<<>>}, validTypes, NewUVs, BOOLEAN, {DefaultRatio})

\* the user creates a node that belongs to no unit: a follicle that drives
\* nothing (with its transform), or a joint. Such nodes are created before the
\* units: they stay at world level, so the order of creation shows nowhere.
DoCreateNode ==
    /\ Built
    /\ made = <<>>
    /\ Cardinality({n \in Strays(scene) : ParentOf(scene, n) = Nobody}) < MaxStrays
    /\ \E kind \in {"follicle", "joint"} :
          scene' =
            IF kind = "joint"
            THEN CreateNode(scene, "joint", Nobody, sJoint \o <<"#">>,
                            [radius |-> 100])
            ELSE CreateNode(
                   CreateNode(scene, "transform", Nobody, sFollicle \o <<"#">>,
                              <<>>),
                   "follicle", Len(scene.nodes) + 1,
                   sFollicle \o sShape \o <<"#">>,
                   [pu |-> 0, pv |-> 0, visibility |-> 1])
    /\ last' = [NoLast EXCEPT !.op = "createNode"]
    /\ UNCHANGED <<made, typeVars, panelVars, callVars, undoVars>>

ObjLists(sc, n) == UNION {[1..k -> Candidates(sc)] : k \in 1..n}

\* FollicleJoint().getFollicleJoint(objs, strict)
DoGetFollicleJoint ==
    /\ Built
    /\ \E objs \in ObjLists(scene, MaxObjs), strict \in BOOLEAN :
          \E r \in {getFollicleJoint(scene, NewAggregate, objs, strict)} :
              last' = [NoLast EXCEPT !.op = "getFollicleJoint", !.objs = objs,
                                     !.strict = strict, !.result = r.result,
                                     !.agg = r.agg]
    /\ UNCHANGED <<scene, made, typeVars, panelVars, callVars, undoVars>>

\* getFollicleJoints(objs, useSelection=False, strict)
DoGetFollicleJoints ==
    /\ Built
    /\ \E objs \in ObjLists(scene, MaxObjs) \cup {<<>>}, strict \in BOOLEAN :
          \E r \in {getFollicleJoints(scene, objs, FALSE, strict)} :
              last' = [NoLast EXCEPT !.op = "getFollicleJoints", !.objs = objs,
                                     !.strict = strict, !.result = r.raised,
                                     !.fols = r.fols]
    /\ UNCHANGED <<scene, made, typeVars, panelVars, callVars, undoVars>>

\* FollicleJoint(obj), and FollicleJoint().getFollicleJoint(obj, strict=False)
DoSet ==
    /\ Built
    /\ \E obj \in Candidates(scene), strict \in BOOLEAN :
          \E r \in {getFollicleJoint(scene, NewAggregate, <<obj>>, strict)} :
              last' = [NoLast EXCEPT !.op = "set", !.objs = <<obj>>,
                                     !.strict = strict, !.result = r.result,
                                     !.agg = r.agg]
    /\ UNCHANGED <<scene, made, typeVars, panelVars, callVars, undoVars>>

CreateNext ==
    \/ DoNew
    \/ DoCreateNode
    \/ DoSet

SceneSpecInit == SceneInit /\ TypeIdle /\ UndoIdle /\ PanelIdle /\ CallIdle

SpecCreate == SceneSpecInit /\ [][CreateNext]_vars

SceneNext ==
    \/ DoNew
    \/ DoCreateNode
    \/ DoGetFollicleJoint
    \/ DoGetFollicleJoints

SpecScene == SceneSpecInit /\ [][SceneNext]_vars

-----------------------------------------------------------------------------
(* Creation and discovery: C1, C7, C8 *)

\* the units a node is a constituent of
UnitsOf(n) == {i \in 1..Len(made) : n \in made[i].nodes}

\* controlObj.pu.get(), controlObj.pv.get()
BasePair(sc, agg) ==
    <<Get(sc, AttrNode(sc, controlObj(agg), "pu"), "pu"),
      Get(sc, AttrNode(sc, controlObj(agg), "pv"), "pv")>>

\* C1: discovery from any constituent node (follicle, transform, joint) of a
\* unit created with type X and uv gives an aggregate of type X whose control
\* node has the base pair uv, for each of the four types; the aggregate is the
\* one the creation populated.
C1_RoundTrip ==
    (last.op = "set" /\ UnitsOf(last.objs[1]) # {}) =>
        \A i \in UnitsOf(last.objs[1]) :
            /\ last.result = "True"
            /\ last.agg.type.typeString = made[i].folType
            /\ BasePair(scene, last.agg) = made[i].uv
            /\ last.agg = made[i].agg

\* a t-j/f unit with uv [0.3, 0.7] discovered from its joint
C1_Witness ==
    /\ last.op = "set"
    /\ \E i \in UnitsOf(last.objs[1]) :
          /\ made[i].folType = TJ_F
          /\ made[i].uv = <<30, 70>>
          /\ TypeOf(scene, last.objs[1]) = "joint"
          /\ BasePair(scene, last.agg) = <<30, 70>>

\* the objects of the most recent call that belong to a unit
Resolving == SelectSeq(last.objs, LAMBDA n : UnitsOf(n) # {})

\* the follicles of a list of unit nodes, each once, in first-seen order
RECURSIVE FolsInOrder(_, _)
FolsInOrder(objs, out) ==
    IF objs = <<>> THEN out
    ELSE FolsInOrder(Tail(objs),
            IF \E k \in 1..Len(out) :
                  out[k] = made[CHOOSE i \in UnitsOf(Head(objs)) : TRUE].fol
            THEN out
            ELSE Append(out, made[CHOOSE i \in UnitsOf(Head(objs)) : TRUE].fol))

InvalidState ==
    {"StandardError: not recognised", "StandardError: No follicle setups"}

\* C7: in non-strict mode the discovery from candidates none of which belongs
\* to a unit returns None and raises nothing, and getFollicleJoints with
\* strict=False goes on past such items: it returns when an item resolves and
\* raises only when none does.
C7_NonStrictContinues ==
    /\ (last.op = "getFollicleJoint" /\ ~last.strict /\ Resolving = <<>>)
          => last.result = "None"
    /\ (last.op = "getFollicleJoints" /\ ~last.strict /\ last.objs # <<>>)
          => IF Resolving = <<>>
             THEN last.result = "StandardError: No follicle setups"
             ELSE last.result = "none"

\* C8: getFollicleJoints raises the missing-input error for an empty list
\* without selection fallback and an invalid-state error for a list of which
\* nothing resolves; otherwise (every item resolves, or the call is not strict)
\* it returns the aggregates of the resolving items, one for each follicle, in
\* first-seen order.
C8_BatchResult ==
    last.op = "getFollicleJoints" =>
        IF last.objs = <<>>
        THEN last.result = "StandardError: No objects found"
        ELSE IF Resolving = <<>>
        THEN last.result \in InvalidState
        ELSE (~last.strict \/ Resolving = last.objs) =>
                /\ last.result = "none"
                /\ [k \in 1..Len(last.fols) |-> last.fols[k].fol]
                      = FolsInOrder(Resolving, <<>>)

-----------------------------------------------------------------------------
(* FollicleJoint.freeze *)

\* endVals read from the control node instead of the follicle
endValsFromControl(sc, agg) ==
    <<Get(sc, controlObj(agg), "pu"), Get(sc, controlObj(agg), "pv")>>

\* endVals = [self.fol.pu.get(), self.fol.pv.get()]
endVals(sc, agg) == <<Get(sc, agg.fol, "pu"), Get(sc, agg.fol, "pv")>>

\* freeze(): the scene after the call and what the call gives: "True", "None"
\* (nothing to freeze), the StandardError raised for the offsets, or the
\* RuntimeError of the host that leaves the else block
freeze(sc, agg) ==
    LET ctrl == controlObj(agg)
        vals == endVals(sc, agg)
        Based(s) ==
            IF ~CanSet(s, ctrl, "pu")
            THEN [sc |-> s, result |-> "RuntimeError"]
            ELSE IF ~CanSet(s, ctrl, "pv")
            THEN [sc |-> SetVal(s, ctrl, "pu", vals[1]),
                  result |-> "RuntimeError"]
            ELSE [sc |-> SetVal(SetVal(s, ctrl, "pu", vals[1]),
                                ctrl, "pv", vals[2]),
                  result |-> "True"]
    IN  IF ctrl = agg.fol \/ ~HasAttr(sc, ctrl, "pu")
        THEN [sc |-> sc, result |-> "None"]
        ELSE IF Get(sc, ctrl, "ou") = 0 /\ Get(sc, ctrl, "ov") = 0
        THEN [sc |-> sc, result |-> "None"]
        ELSE IF ~CanSet(sc, ctrl, "ou")
        THEN [sc |-> sc, result |-> "StandardError"]
        ELSE IF ~CanSet(sc, ctrl, "ov")
        THEN [sc |-> SetVal(sc, ctrl, "ou", 0), result |-> "StandardError"]
        ELSE Based(SetVal(SetVal(sc, ctrl, "ou", 0), ctrl, "ov", 0))

\* the units frozen in the model
MaxFreezeUnits == 1

\* uvDriverRatio: the default, none on u, none at all
Ratios == {DefaultRatio, <<0, 10>>, <<0, 0>>}

\* offset values the user sets: 0, 1.0, -0.5
OffsetValues == {0, 100, -50}

ControlOf(i) == controlObj(made[i].agg)

Edited == [NoLast EXCEPT !.op = "edit"]

\* The user edits a control node whose base pair is still the one it was
\* created with: every freeze of an offset moves the base, and the base values
\* would grow without bound.
Editable(i, a) ==
    /\ HasAttr(scene, ControlOf(i), a)
    /\ Get(scene, ControlOf(i), "pu") = made[i].uv[1]
    /\ Get(scene, ControlOf(i), "pv") = made[i].uv[2]

DoNewForFreeze ==
    NewUnit(MaxFreezeUnits, {<<>>}, validTypes, {<<30, 70>>}, BOOLEAN, Ratios)

\* the user sets an offset attribute of a control node
DoSetOffset ==
    /\ \E i \in 1..Len(made), a \in {"ou", "ov"}, v \in OffsetValues :
          /\ Editable(i, a)
          /\ CanSet(scene, ControlOf(i), a)
          /\ scene' = SetVal(scene, ControlOf(i), a, v)
    /\ last' = Edited
    /\ UNCHANGED <<made, typeVars, panelVars, callVars, undoVars>>

\* the user locks or unlocks one of the attributes attrs of a control node
LockAttr(attrs) ==
    /\ \E i \in 1..Len(made), a \in attrs :
          /\ Editable(i, a)
          /\ scene' = [scene EXCEPT !.locked =
                          IF <<ControlOf(i), a>> \in @
                          THEN @ \ {<<ControlOf(i), a>>}
                          ELSE @ \cup {<<ControlOf(i), a>>}]
    /\ last' = Edited
    /\ UNCHANGED <<made, typeVars, panelVars, callVars, undoVars>>

DoLock == LockAttr({"pu", "pv", "ou", "ov"})

\* the user connects the patch transform's translateX to an offset attribute
DoConnectOffset ==
    /\ \E i \in 1..Len(made), a \in {"ou", "ov"} :
          /\ Editable(i, a)
          /\ CanSet(scene, ControlOf(i), a)
          /\ scene' = Connect(scene, 1, "tx", ControlOf(i), a)
    /\ last' = Edited
    /\ UNCHANGED <<made, typeVars, panelVars, callVars, undoVars>>

\* unit.freeze()
DoFreeze ==
    /\ \E i \in 1..Len(made) :
          \E r \in {freeze(scene, made[i].agg)} :
              /\ scene' = r.sc
              /\ last' = [NoLast EXCEPT !.op = "freeze", !.result = r.result,
                                        !.agg = made[i].agg, !.pre = scene]
    /\ UNCHANGED <<made, typeVars, panelVars, callVars, undoVars>>

FreezeNext ==
    \/ DoNewForFreeze
    \/ DoSetOffset
    \/ DoLock
    \/ DoConnectOffset
    \/ DoFreeze

SpecFreeze == SceneSpecInit /\ [][FreezeNext]_vars

\* the offsets, the base pair and the resolved pair of the frozen unit in sc
OffsetPair(sc) ==
    <<Get(sc, controlObj(last.agg), "ou"), Get(sc, controlObj(last.agg), "ov")>>

ControlPair(sc) ==
    <<Get(sc, controlObj(last.agg), "pu"), Get(sc, controlObj(last.agg), "pv")>>

ResolvedPair(sc) ==
    <<Get(sc, last.agg.fol, "pu"), Get(sc, last.agg.fol, "pv")>>

\* the control node is not the follicle and has the parameter attributes
HasOffsets ==
    /\ controlObj(last.agg) # last.agg.fol
    /\ HasAttr(last.pre, controlObj(last.agg), "pu")

AllSettable ==
    \A a \in {"pu", "pv", "ou", "ov"} : CanSet(last.pre, controlObj(last.agg), a)

C4_FailsBeforeChange ==
    (last.op = "freeze" /\ last.result = "StandardError") =>
        /\ OffsetPair(scene) = OffsetPair(last.pre)
        /\ ControlPair(scene) = ControlPair(last.pre)

-----------------------------------------------------------------------------
(* Sides and mirrors: side, getMirrorObject, copyValuesToMirror *)

sidePrefix == <<<<"L", "_">>, <<"R", "_">>, <<"M", "_">>>>

sideChars == <<"l", "r", "m">>

\* str.replace(old, by): every occurrence, left to right
RECURSIVE Replace(_, _, _)
Replace(s, old, by) ==
    IF Len(s) < Len(old) THEN s
    ELSE IF SubSeq(s, 1, Len(old)) = old
    THEN by \o Replace(SubSeq(s, Len(old) + 1, Len(s)), old, by)
    ELSE <<Head(s)>> \o Replace(Tail(s), old, by)

\* the name property: the name of nameObj, None (the empty name) without one
selfName(sc, agg) ==
    IF nameObj(agg) = Nobody THEN <<>> ELSE NameOf(sc, nameObj(agg))

\* the side property: the first prefix the name starts with, else middle
side(sc, agg) ==
    LET nameStr == IF selfName(sc, agg) # <<>> THEN selfName(sc, agg)
                   ELSE NameOf(sc, agg.fol)
    IN  IF \E i \in 1..3 : StartsWith(nameStr, sidePrefix[i])
        THEN sideChars[CHOOSE i \in 1..3 :
                          /\ StartsWith(nameStr, sidePrefix[i])
                          /\ \A j \in 1..(i - 1) :
                                ~StartsWith(nameStr, sidePrefix[j])]
        ELSE sideChars[3]

isSide(sc, agg) == side(sc, agg) \in {sideChars[1], sideChars[2]}

\* the node pm.ls(name) gives
NodeNamed(sc, nm) == First({n \in Alive(sc) : NameOf(sc, n) = nm})

\* getMirrorObject(strict): what is raised, what is returned ("obj", "None",
\* "False") and the aggregate of the mirror
getMirrorObject(sc, agg, strict) ==
    LET lrIndex == IF side(sc, agg) = sideChars[1] THEN 1 ELSE 2
        mirrorFolGuess ==
            Replace(NameOf(sc, nameObj(agg)), sidePrefix[lrIndex],
                    sidePrefix[3 - lrIndex])
        Found(got) ==
            IF got.result = "True"
            THEN [raised |-> "none", result |-> "obj", agg |-> got.agg]
            ELSE [raised |-> got.result, result |-> "none",
                  agg |-> NewAggregate]
    IN  IF ~isSide(sc, agg)
        THEN [raised |-> IF strict THEN "StandardError" ELSE "none",
              result |-> "None", agg |-> NewAggregate]
        ELSE IF objExists(sc, mirrorFolGuess)
        THEN Found(FollicleJoint(sc, NodeNamed(sc, mirrorFolGuess)))
        ELSE [raised |-> IF strict THEN "StandardError" ELSE "none",
              result |-> "False", agg |-> NewAggregate]

\* min(max(val, minVal), maxVal)
Clamp(val, range) ==
    IF val < range[1] THEN (IF range[1] > range[2] THEN range[2] ELSE range[1])
    ELSE IF val > range[2] THEN range[2]
    ELSE val

\* the value written when the test of the axis is left out
MirroredValEveryAxis(val, e, axisVal) ==
    LET mirrored == 2 * (IF e.ranged THEN e.midVal ELSE 0) - val
    IN  IF e.ranged THEN Clamp(mirrored, e.uvRange) ELSE mirrored

\* the value written for one entry of toFromAttrs
MirroredVal(val, e, axisVal) ==
    LET mirrored == IF e.uvIndex = axisVal
                    THEN 2 * (IF e.ranged THEN e.midVal ELSE 0) - val
                    ELSE val
    IN  IF e.ranged THEN Clamp(mirrored, e.uvRange) ELSE mirrored

\* the loop over toFromAttrs: an attribute that is locked or connected is
\* skipped
RECURSIVE SetMirrorAttrs(_, _, _)
SetMirrorAttrs(sc, entries, axisVal) ==
    IF entries = <<>> THEN sc
    ELSE SetMirrorAttrs(
           IF CanSet(sc, Head(entries).to[1], Head(entries).to[2])
           THEN SetVal(sc, Head(entries).to[1], Head(entries).to[2],
                       MirroredVal(Get(sc, Head(entries).from[1],
                                       Head(entries).from[2]),
                                   Head(entries), axisVal))
           ELSE sc,
           Tail(entries), axisVal)

\* the index with the axis of the offset when opposing offsets are asked for
offsetIndexOnAxisWhenOpposing(opposingOffsets, i) ==
    IF opposingOffsets THEN i ELSE 2

\* the third item of the toFromAttrs entry of offset i (0 for u, 1 for v): 2,
\* which is no axis, with opposingOffsets, else the index of its axis
offsetIndex(opposingOffsets, i) == IF opposingOffsets THEN 2 ELSE i

\* copyValuesToMirror(baseValues, offsets, axis, midVal, uvRange, strict,
\* opposingOffsets), with jntRadius, uvDriverRatio and drivenOffsetRatios
\* False as they are by default: the scene after the call, what is raised and
\* the aggregate of the mirror returned
copyValuesToMirror(sc, agg, baseValues, offsets, axis, midVal, uvRange, strict, opposingOffsets) ==
    LET axisVal == IF axis = "v" THEN 1 ELSE 0
        ctrl == controlObj(agg)
        Base(mirCtrl) ==
            IF ~baseValues THEN <<>>
            ELSE <<[to |-> <<AttrNode(sc, mirCtrl, "pu"), "pu">>,
                    from |-> <<AttrNode(sc, ctrl, "pu"), "pu">>,
                    uvIndex |-> 0, ranged |-> TRUE, midVal |-> midVal,
                    uvRange |-> uvRange],
                   [to |-> <<AttrNode(sc, mirCtrl, "pv"), "pv">>,
                    from |-> <<AttrNode(sc, ctrl, "pv"), "pv">>,
                    uvIndex |-> 1, ranged |-> TRUE, midVal |-> midVal,
                    uvRange |-> uvRange]>>
        Offsets(mirror, mirCtrl) ==
            IF ~(offsets /\ uvDriverAttrs(sc, agg) /\ uvDriverAttrs(sc, mirror))
            THEN <<>>
            ELSE <<[to |-> <<mirCtrl, "ou">>, from |-> <<ctrl, "ou">>,
                    uvIndex |-> offsetIndex(opposingOffsets, 0),
                    ranged |-> FALSE, midVal |-> 0, uvRange |-> <<>>],
                   [to |-> <<mirCtrl, "ov">>, from |-> <<ctrl, "ov">>,
                    uvIndex |-> offsetIndex(opposingOffsets, 1),
                    ranged |-> FALSE, midVal |-> 0, uvRange |-> <<>>]>>
        \* mirrorObj.controlObj on False, or mirCtrl.pu on a node without it
        NoAttribute(m) ==
            \/ m.result # "obj"
            \/ /\ baseValues
               /\ \E a \in {"pu", "pv"} :
                     \/ AttrNode(sc, controlObj(m.agg), a) = Nobody
                     \/ AttrNode(sc, ctrl, a) = Nobody
        Copied(m) ==
            IF m.raised # "none"
            THEN [sc |-> sc, raised |-> m.raised, mirror |-> NewAggregate]
            ELSE IF NoAttribute(m)
            THEN [sc |-> sc, raised |-> "AttributeError",
                  mirror |-> NewAggregate]
            ELSE [sc |-> SetMirrorAttrs(sc,
                            Base(controlObj(m.agg))
                               \o Offsets(m.agg, controlObj(m.agg)),
                            axisVal),
                  raised |-> "none", mirror |-> m.agg]
    IN  IF ~isSide(sc, agg)
        THEN [sc |-> sc, raised |-> IF strict THEN "StandardError" ELSE "none",
              mirror |-> NewAggregate]
        ELSE Copied(getMirrorObject(sc, agg, strict))

\* names with a side prefix: "L_a#", "R_a#", "M_a#"
MirrorNames ==
    {<<"L", "_", "a", "#">>, <<"R", "_", "a", "#">>, <<"M", "_", "a", "#">>}

\* uv pairs [0.2, 0.7] and [0.3, 0.4]
MirrorUVs == {<<20, 70>>, <<30, 40>>}

\* midVal 0.5, the default, and 0.3
MidVals == {50, 30}

\* uvRange [0.0, 1.0], the default
DefaultRange == <<0, 100>>

\* the units of the mirror scenes: the control node is the transform (t/f) or
\* the joint (t-j/f), with its own parameter attributes or with those of the
\* follicle under it
DoNewNamed ==
    NewUnit(MaxUnits, MirrorNames, {T_F, TJ_F}, MirrorUVs, BOOLEAN,
            {DefaultRatio})

\* the user locks or unlocks parameterU of a control node, before any copy
DoLockBase == last.op \in {"new", "edit"} /\ LockAttr({"pu"})

\* unit.copyValuesToMirror(baseValues, axis=axis, midVal=midVal, strict=strict)
\* on a scene no copy has written to
DoCopyValuesToMirror ==
    /\ last.op \in {"new", "edit"}
    /\ \E i \in 1..Len(made), baseValues \in BOOLEAN, axis \in {"u", "v"},
          midVal \in MidVals, strict \in BOOLEAN :
          \E r \in {copyValuesToMirror(scene, made[i].agg, baseValues, TRUE, axis,
                                      midVal, DefaultRange, strict, TRUE)} :
              /\ scene' = r.sc
              /\ last' = [NoLast EXCEPT
                            !.op = "copyValuesToMirror", !.result = r.raised,
                            !.agg = made[i].agg, !.other = r.mirror,
                            !.strict = strict, !.pre = scene,
                            !.args = [baseValues |-> baseValues, axis |-> axis,
                                      midVal |-> midVal,
                                      uvRange |-> DefaultRange]]
    /\ UNCHANGED <<made, typeVars, panelVars, callVars, undoVars>>

MirrorNext ==
    \/ DoNewNamed
    \/ DoLockBase
    \/ DoCopyValuesToMirror

SpecMirror == SceneSpecInit /\ [][MirrorNext]_vars

\* the base attribute a of the source and of the mirror of the latest copy
SourceBase(a) == <<AttrNode(last.pre, controlObj(last.agg), a), a>>

MirrorBase(a) == <<AttrNode(last.pre, controlObj(last.other), a), a>>

\* the value the copy is to write to the mirror for base attribute a
ExpectedBase(a) ==
    LET src == Get(last.pre, SourceBase(a)[1], a)
        onAxis == (a = "pu" /\ last.args.axis = "u")
                     \/ (a = "pv" /\ last.args.axis = "v")
        val == IF onAxis THEN 2 * last.args.midVal - src ELSE src
    IN  IF val < last.args.uvRange[1] THEN last.args.uvRange[1]
        ELSE IF val > last.args.uvRange[2] THEN last.args.uvRange[2]
        ELSE val

Copied ==
    /\ last.op = "copyValuesToMirror"
    /\ last.result = "none"
    /\ last.other # NewAggregate
    /\ last.args.baseValues

\* C10: a copy with base values selected, axis a and midpoint m leaves on the
\* control node of the mirror, for each base parameter that is free to change:
\* on axis a the value 2*m - source clamped to the range, on the other axis
\* the source value clamped to the range (the source value itself when it is
\* in the range); a base parameter that is locked or connected keeps its value.
C10_MirrorBase ==
    Copied =>
        \A a \in {"pu", "pv"} :
            Get(scene, MirrorBase(a)[1], a) =
                IF CanSet(last.pre, MirrorBase(a)[1], a)
                THEN ExpectedBase(a)
                ELSE Get(last.pre, MirrorBase(a)[1], a)

\* axis u, midpoint 0.5, source base-U 0.2: the mirror has base-U 0.8 and the
\* base-V 0.7 of the source, having had 0.3 and 0.4
C10_Witness ==
    /\ Copied
    /\ last.args.axis = "u"
    /\ last.args.midVal = 50
    /\ Get(last.pre, SourceBase("pu")[1], "pu") = 20
    /\ Get(last.pre, SourceBase("pv")[1], "pv") = 70
    /\ Get(last.pre, MirrorBase("pu")[1], "pu") = 30
    /\ Get(last.pre, MirrorBase("pv")[1], "pv") = 40
    /\ Get(scene, MirrorBase("pu")[1], "pu") = 80
    /\ Get(scene, MirrorBase("pv")[1], "pv") = 70

-----------------------------------------------------------------------------
(* autoRename: left/right/middle numbered names from the uv values *)

sTempSuffix ==
    <<"_", "t", "e", "m", "p", "_", "n", "a", "m", "e", "_", "w", "h", "i", "l",
      "e", "_", "r", "e", "n", "a", "m", "i", "n", "g", "_", "_">>

sGroup == <<"g", "r", "o", "u", "p">>

\* the defaults midVal=0.5, middleTolerance=0.04 (hundredths) and scaleY=4
AutoMidVal == 50

AutoTolerance == 4

AutoScaleY == 4

\* sort keys are kept in units of nodeUniqueOffset, 0.00001: a thousandth of
\* a hundredth
KeyScale == 1000

\* the first side prefix the text starts with is cut off
StripSide(pre) ==
    IF \E i \in 1..3 : StartsWith(pre, sidePrefix[i])
    THEN LET i == CHOOSE k \in 1..3 :
                     /\ StartsWith(pre, sidePrefix[k])
                     /\ \A m \in 1..(k - 1) : ~StartsWith(pre, sidePrefix[m])
         IN  SubSeq(pre, Len(sidePrefix[i]) + 1, Len(pre))
    ELSE pre

\* pre and suf of the names to give: from the name of the first unit when no
\* name is given (the empty name), else from the name split at its '#' or at
\* its last number
AutoNameParts(sc, fols, name) ==
    LET FromFirst(p) ==
            [pre |-> StripSide(IF p[2] = <<>>
                               THEN RPartitionHead(p[1], <<"_">>) ELSE p[1]),
             suf |-> p[3]]
        FromName(p) == [pre |-> p[1], suf |-> p[3]]
    IN  IF name = <<>>
        THEN FromFirst(splitNumberedName(NameOf(sc, nameObj(fols[1])),
                                         DigitChars))
        ELSE IF "#" \in Range(name)
        THEN FromName(splitNumberedName(name, {"#"}))
        ELSE FromName(splitNumberedName(name, DigitChars))

\* LRM of a unit with uvAsXy=['u', 'v']: 1 left, 2 right, 3 middle (the
\* indices of the side prefixes)
AutoSide(x) ==
    IF 2 * x <= 2 * AutoMidVal - AutoTolerance THEN 1
    ELSE IF 2 * x >= 2 * AutoMidVal + AutoTolerance THEN 2
    ELSE 3

\* hashNum: the distance from the mirror line plus scaleY times the height
hashNum(x, y) ==
    KeyScale * ((IF AutoSide(x) = 1 THEN AutoMidVal - x ELSE x - AutoMidVal)
                + AutoScaleY * y)

\* while hashNum in LRMside[LRM]: hashNum += nodeUniqueOffset
RECURSIVE UniqueKey(_, _)
UniqueKey(keys, k) == IF k \in keys THEN UniqueKey(keys, k + 1) ELSE k

\* the loop over folObjs: each side collects its units under their keys
RECURSIVE SortIntoSides(_, _, _)
SortIntoSides(sc, fols, sides) ==
    IF fols = <<>> THEN sides
    ELSE LET agg == Head(fols)
             x == Get(sc, agg.fol, "pu")
             y == Get(sc, agg.fol, "pv")
             s == AutoSide(x)
             key == UniqueKey({e.key : e \in sides[s]}, hashNum(x, y))
         IN  SortIntoSides(sc, Tail(fols),
                 [sides EXCEPT ![s] = @ \cup {[key |-> key, agg |-> agg]}])

\* orderedFols of one side: the entries by ascending key
RECURSIVE ByKey(_)
ByKey(entries) ==
    IF entries = {} THEN <<>>
    ELSE LET e == CHOOSE f \in entries : \A g \in entries : f.key <= g.key
         IN  <<e.agg>> \o ByKey(entries \ {e})

\* the units in the order they are renamed: left, right, middle
RenameOrder(sides) ==
    LET OfSide(i) == [k \in 1..Len(ByKey(sides[i])) |->
                         [side |-> i, agg |-> ByKey(sides[i])[k]]]
    IN  OfSide(1) \o OfSide(2) \o OfSide(3)

\* toTempRename, and prevNames: the names of the nodes before the call
RECURSIVE AllNodes(_)
AllNodes(fols) ==
    IF fols = <<>> THEN <<>> ELSE allDagObjs(Head(fols)) \o AllNodes(Tail(fols))

\* pm.ls(regex='(L_|R_|M_)' + pre + '[0-9]+' + suf): a side prefix, pre, one
\* digit or more, suf
MatchesNumbered(nm, pre, suf) ==
    \E i \in 1..3 :
        LET head == sidePrefix[i] \o pre
            mid == SubSeq(nm, Len(head) + 1, Len(nm) - Len(suf))
        IN  /\ Len(nm) > Len(head) + Len(suf)
            /\ SubSeq(nm, 1, Len(head)) = head
            /\ SubSeq(nm, Len(nm) - Len(suf) + 1, Len(nm)) = suf
            /\ Range(mid) \subseteq DigitChars

\* maxNum: the highest number of the matching names that are not among the
\* names of the units, 0 without one
maxNum(sc, prevNames, pre, suf) ==
    LET nums == {StrNum(splitNumberedName(NameOf(sc, n), DigitChars)[2]) :
                   n \in {m \in Alive(sc) :
                            /\ MatchesNumbered(NameOf(sc, m), pre, suf)
                            /\ NameOf(sc, m) \notin prevNames}}
    IN  IF nums = {} THEN 0 ELSE CHOOSE n \in nums : \A m \in nums : m <= n

\* newMaxNum: the size of the largest side, 1 at least
newMaxNum(sides) ==
    LET counts == {Cardinality(sides[i]) : i \in 1..3} \cup {1}
    IN  CHOOSE n \in counts : \A m \in counts : m <= n

numBufferNewOnly(highest, newest) == Len(NumStr(newest))

\* numBuffer = len(str(maxNum + newMaxNum))
numBuffer(highest, newest) == Len(NumStr(highest + newest))

\* the temporary names: every node gets the suffix unless its name has it
RECURSIVE TempRename(_, _)
TempRename(sc, nodes) ==
    IF nodes = <<>> THEN sc
    ELSE TempRename(
           IF FindFrom(NameOf(sc, Head(nodes)), sTempSuffix, 1) # 0 THEN sc
           ELSE HostRename(sc, Head(nodes),
                           NameOf(sc, Head(nodes)) \o sTempSuffix),
           Tail(nodes))

\* the naming loop: j is 1 for the first unit of a side; each unit takes the
\* first free set of names from j on, and j goes on from the number it took
RECURSIVE RenameInOrder(_, _, _, _, _, _)
RenameInOrder(sc, todo, j, np, grpList, newNames) ==
    IF todo = <<>>
    THEN [sc |-> sc, raised |-> "none", grpList |-> grpList,
          newNames |-> newNames]
    ELSE LET it == Head(todo)
             rest == Tail(todo)
             NextJ(names) ==
                 IF rest # <<>> /\ Head(rest).side # it.side THEN 1
                 ELSE StrNum(splitNumberedName(names.main, DigitChars)[2]) + 1
             Renamed(r) ==
                 IF r.raised # "none"
                 THEN [sc |-> r.sc, raised |-> r.raised, grpList |-> grpList,
                       newNames |-> newNames]
                 ELSE RenameInOrder(r.sc, rest, NextJ(r.newNames), np,
                                    Append(grpList, topObj(it.agg)),
                                    r.newNames)
         IN  Renamed(rename(sc, it.agg,
                            joinNumberedName(sidePrefix[it.side] \o np.pre, j,
                                             np.suf, np.numBuffer, <<>>),
                            FALSE, TRUE, renameFormats))

RECURSIVE ReparentAll(_, _, _)
ReparentAll(sc, nodes, p) ==
    IF nodes = <<>> THEN sc
    ELSE ReparentAll(Reparent(sc, Head(nodes), p), Tail(nodes), p)

\* the units are put under a temporary group and back under their parent, or
\* the world, when they have one parent at most
Regroup(sc, grpList) ==
    LET parents == {ParentOf(sc, grpList[k]) : k \in 1..Len(grpList)} \ {Nobody}
        tempGrp == Len(sc.nodes) + 1
        Back(s) ==
            Delete(ReparentAll(s, grpList,
                               IF parents = {} THEN Nobody
                               ELSE CHOOSE p \in parents : TRUE),
                   tempGrp)
    IN  IF Cardinality(parents) > 1 THEN sc
        ELSE Back(ReparentAll(
                    CreateNode(sc, "transform", Nobody, sGroup \o <<"#">>, <<>>),
                    grpList, tempGrp))

\* autoRename(objs, useSelection, name=name) with the other arguments at
\* their defaults: the scene after the call, what it raised, and the names
\* it returns
autoRename(sc, objs, useSelection, name) ==
    LET Selected(r) ==
            IF r.raised # "none" THEN [sc |-> r.sc, raised |-> r.raised,
                                       newNames |-> <<>>]
            ELSE [sc |-> [Regroup(r.sc, r.grpList) EXCEPT !.sel = r.grpList],
                  raised |-> "none", newNames |-> r.newNames]
        Numbered(fols, sides, np) ==
            Selected(RenameInOrder(TempRename(sc, AllNodes(fols)),
                                   RenameOrder(sides), 1, np, <<>>, <<>>))
        Sorted(fols, sides, parts) ==
            Numbered(fols, sides,
                     [pre |-> parts.pre, suf |-> parts.suf,
                      numBuffer |->
                          numBuffer(
                            maxNum(sc,
                                   {NameOf(sc, AllNodes(fols)[k]) :
                                      k \in 1..Len(AllNodes(fols))},
                                   parts.pre, parts.suf),
                            newMaxNum(sides))])
        Found(got) ==
            IF got.raised # "none"
            THEN [sc |-> sc, raised |-> got.raised, newNames |-> <<>>]
            ELSE IF name = <<>> /\ nameObj(got.fols[1]) = Nobody
            THEN [sc |-> sc, raised |-> "AttributeError", newNames |-> <<>>]
            ELSE Sorted(got.fols,
                        SortIntoSides(sc, got.fols, <<{}, {}, {}>>),
                        AutoNameParts(sc, got.fols, name))
    IN  Found(getFollicleJoints(sc, objs, useSelection, FALSE))

-----------------------------------------------------------------------------
(* The scene under autoRename *)

MaxBlockers == 2

MaxAutoUnits == 2

\* names of joints that belong to no unit: "L_a2", "L_a_J_1", "L_a9"
BlockerNames ==
    {<<"L", "_", "a", "2">>, <<"L", "_", "a", "_", "J", "_", "1">>,
     <<"L", "_", "a", "9">>}

\* names the units are created with: "a#" and "L_a#"
AutoUnitNames == {<<"a", "#">>, <<"L", "_", "a", "#">>}

\* uv pairs [0.3, 0.5], [0.2, 0.5] (left), [0.8, 0.5] (right) and
\* [0.5, 0.5] (middle)
AutoUVs == {<<30, 50>>, <<20, 50>>, <<80, 50>>, <<50, 50>>}

\* name=None (the empty name) and name="a#"
AutoNames == {<<>>, <<"a", "#">>}

\* the user creates a joint of one of the names, before the units
DoCreateNamedJoint ==
    /\ last.op \in {"none", "createNode"}
    /\ made = <<>>
    /\ Cardinality(Strays(scene)) < MaxBlockers
    /\ \E nm \in BlockerNames :
          /\ ~objExists(scene, nm)
          /\ scene' = CreateNode(scene, "joint", Nobody, nm, [radius |-> 100])
    /\ last' = [NoLast EXCEPT !.op = "createNode"]
    /\ UNCHANGED <<made, typeVars, panelVars, callVars, undoVars>>

DoNewForAuto ==
    NewUnit(MaxAutoUnits, AutoUnitNames, {T_F, TJ_F}, AutoUVs, {FALSE},
            {DefaultRatio})

\* the lists of units without repetition
UnitLists ==
    {u \in UNION {[1..k -> 1..Len(made)] : k \in 1..Len(made)} :
        \A a, b \in 1..Len(u) : a # b => u[a] # u[b]}

\* autoRename(objs, useSelection=False, name=name), objs being the top nodes
\* of some of the units
DoAutoRename ==
    /\ last.op = "new"
    /\ \E units \in UnitLists, name \in AutoNames :
          \E r \in {autoRename(scene,
                               [k \in 1..Len(units) |->
                                   topObj(made[units[k]].agg)],
                               FALSE, name)} :
              /\ scene' = r.sc
              /\ last' = [NoLast EXCEPT
                            !.op = "autoRename", !.result = r.raised,
                            !.pre = scene,
                            !.args = [name |-> name, units |-> units]]
    /\ UNCHANGED <<made, typeVars, panelVars, callVars, undoVars>>

AutoNext ==
    \/ DoCreateNamedJoint
    \/ DoNewForAuto
    \/ DoAutoRename

SpecAuto == SceneSpecInit /\ [][AutoNext]_vars

\* the units of the latest autoRename
AutoDone == last.op = "autoRename" /\ last.result = "none"

BatchUnits == Range(last.args.units)

PosInBatch(i) ==
    CHOOSE k \in 1..Len(last.args.units) : last.args.units[k] = i

BatchNodes == UNION {made[i].nodes : i \in BatchUnits}

\* across and up of unit i: the parameters of its follicle before the call
Across(i) == Get(last.pre, made[i].fol, "pu")

Up(i) == Get(last.pre, made[i].fol, "pv")

\* 1 left (across <= 0.48), 2 right (across >= 0.52), 3 middle
SideIndex(i) ==
    IF Across(i) <= 48 THEN 1 ELSE IF Across(i) >= 52 THEN 2 ELSE 3

SortKey(i) ==
    (IF SideIndex(i) = 1 THEN 50 - Across(i) ELSE Across(i) - 50) + 4 * Up(i)

\* unit i is renamed before unit j of its side: the smaller key, and for equal
\* keys the earlier place in the list
Before(i, j) ==
    \/ SortKey(i) < SortKey(j)
    \/ SortKey(i) = SortKey(j) /\ PosInBatch(i) < PosInBatch(j)

Earlier(i) ==
    {j \in BatchUnits \ {i} : SideIndex(j) = SideIndex(i) /\ Before(j, i)}

\* the prefix every name in these scenes leads to
AutoHead(i) == sidePrefix[SideIndex(i)] \o <<"a">>

FinalName(i) == NameOf(scene, nameObj(made[i].agg))

\* the text of the final name after the side prefix and "a"
NumberText(i) == SubSeq(FinalName(i), Len(AutoHead(i)) + 1, Len(FinalName(i)))

WellNamed(i) ==
    /\ StartsWith(FinalName(i), AutoHead(i))
    /\ NumberText(i) # <<>>
    /\ Range(NumberText(i)) \subseteq DigitChars

UnitNumber(i) == StrNum(NumberText(i))

\* the number of the unit renamed just before unit i on its side, 0 for the
\* first
PrevNumber(i) ==
    IF Earlier(i) = {} THEN 0
    ELSE UnitNumber(CHOOSE j \in Earlier(i) :
                       \A k \in Earlier(i) \ {j} : Before(k, j))

\* the numbers of the names "L_a<n>", "R_a<n>", "M_a<n>" that nodes outside
\* the units had before the call
OutsideNumbers ==
    {StrNum(SubSeq(NameOf(last.pre, n), 4, Len(NameOf(last.pre, n)))) :
       n \in {m \in Alive(last.pre) \ BatchNodes :
                LET nm == NameOf(last.pre, m)
                IN  /\ Len(nm) > 3
                    /\ \E s \in 1..3 : SubSeq(nm, 1, 3) = sidePrefix[s] \o <<"a">>
                    /\ Range(SubSeq(nm, 4, Len(nm))) \subseteq DigitChars}}

HighestOutside ==
    IF OutsideNumbers = {} THEN 0
    ELSE CHOOSE n \in OutsideNumbers : \A m \in OutsideNumbers : m <= n

LargestSide ==
    LET counts == {Cardinality({i \in BatchUnits : SideIndex(i) = s}) :
                     s \in 1..3}
    IN  CHOOSE n \in counts : \A m \in counts : m <= n

\* the digit count of (highest number outside + size of the largest side)
PadWidth == Len(NumStr(HighestOutside + LargestSide))

\* number m is taken for unit i: a node outside the units has the name the
\* transform, or the joint of a unit with both, would get for m
Taken(i, m) ==
    LET text == ZeroPad(NumStr(m), PadWidth)
        names == {AutoHead(i) \o text}
                   \cup (IF made[i].folType = TJ_F
                         THEN {AutoHead(i) \o <<"_", "J", "_">> \o text}
                         ELSE {})
    IN  \E n \in Alive(last.pre) \ BatchNodes : NameOf(last.pre, n) \in names

\* C9 as stated: the numbers of each side are, in sort-key order,
\* (highest pre-existing matching number) + 1, + 2, ... without a gap, and
\* every number is padded to the digit count of the largest number given, at
\* least.
C9_GaplessFromHighestAsStated ==
    AutoDone =>
        \A i \in BatchUnits :
            /\ WellNamed(i)
            /\ UnitNumber(i) = HighestOutside + Cardinality(Earlier(i)) + 1
            /\ \A j \in BatchUnits :
                  Len(NumberText(i)) >= Len(NumStr(UnitNumber(j)))

\* C9: the name of every unit of the call is side prefix + prefix + number +
\* suffix; the numbers of a side increase strictly in sort-key order; the
\* first unit of a side has the smallest number from 1 on, and every other
\* unit the smallest number above that of the unit before it, for which no
\* node outside the units holds one of the names of the unit; every number
\* is padded with zeros to the digit count of (highest pre-existing matching
\* number + size of the largest side).
C9_FirstFreeNumbers ==
    AutoDone =>
        \A i \in BatchUnits :
            /\ WellNamed(i)
            /\ NumberText(i) = ZeroPad(NumStr(UnitNumber(i)), PadWidth)
            /\ UnitNumber(i) > PrevNumber(i)
            /\ ~Taken(i, UnitNumber(i))
            /\ \A m \in (PrevNumber(i) + 1)..(UnitNumber(i) - 1) : Taken(i, m)

\* two units on the left, a joint "L_a2" outside them: the units get 1 and 3
C9_Witness ==
    /\ AutoDone
    /\ \E i, j \in BatchUnits :
          /\ SideIndex(i) = 1
          /\ SideIndex(j) = 1
          /\ Before(i, j)
          /\ FinalName(i) = <<"L", "_", "a", "1">>
          /\ FinalName(j) = <<"L", "_", "a", "3">>
    /\ \E n \in Alive(last.pre) \ BatchNodes :
          NameOf(last.pre, n) = <<"L", "_", "a", "2">>

-----------------------------------------------------------------------------
(* The scene under a copy of offsets to the mirror *)

\* names "L_a#" and "R_a#"
SideNames == {<<"L", "_", "a", "#">>, <<"R", "_", "a", "#">>}

\* units whose control node has the offset attributes
DoNewWithOffsets ==
    NewUnit(MaxUnits, SideNames, {T_F, TJ_F}, {<<20, 70>>}, {TRUE},
            {DefaultRatio})

\* the user sets an offset, or locks or unlocks offsetU, of a control node
\* before any copy
DoSetOffsetBefore == last.op \in {"new", "edit"} /\ DoSetOffset

DoLockOffset == last.op \in {"new", "edit"} /\ LockAttr({"ou"})

\* unit.copyValuesToMirror(baseValues, offsets=True, axis=axis,
\* opposingOffsets=opposingOffsets) on a scene no copy has written to
DoCopyOffsets ==
    /\ last.op \in {"new", "edit"}
    /\ \E i \in 1..Len(made), baseValues \in BOOLEAN, axis \in {"u", "v"},
          opposingOffsets \in BOOLEAN :
          \E r \in {copyValuesToMirror(scene, made[i].agg, baseValues, TRUE,
                                      axis, 50, DefaultRange, TRUE,
                                      opposingOffsets)} :
              /\ scene' = r.sc
              /\ last' = [NoLast EXCEPT
                            !.op = "copyOffsets", !.result = r.raised,
                            !.agg = made[i].agg, !.other = r.mirror,
                            !.strict = TRUE, !.pre = scene,
                            !.args = [baseValues |-> baseValues, axis |-> axis,
                                      opposingOffsets |-> opposingOffsets]]
    /\ UNCHANGED <<made, typeVars, panelVars, callVars, undoVars>>

OffsetCopyNext ==
    \/ DoNewWithOffsets
    \/ DoSetOffsetBefore
    \/ DoLockOffset
    \/ DoCopyOffsets

SpecOffsetCopy == SceneSpecInit /\ [][OffsetCopyNext]_vars

\* the latest call copied offsets: it found the mirror, and both units have
\* the offset attributes
OffsetsCopied ==
    /\ last.op = "copyOffsets"
    /\ last.result = "none"
    /\ last.other # NewAggregate
    /\ uvDriverAttrs(last.pre, last.agg)
    /\ uvDriverAttrs(last.pre, last.other)

SourceOffset(a) == Get(last.pre, controlObj(last.agg), a)

MirrorOffsetBefore(a) == Get(last.pre, controlObj(last.other), a)

MirrorOffset(a) == Get(scene, controlObj(last.other), a)

OffsetOnAxis(a) ==
    \/ a = "ou" /\ last.args.axis = "u"
    \/ a = "ov" /\ last.args.axis = "v"

\* C11 as stated: with offsets selected the mirror gets the source's offsetU
\* and offsetV as they are when opposing offsets are not requested, and with
\* the sign of the offset on the mirror axis turned when they are.
C11_OffsetsAsStated ==
    OffsetsCopied =>
        \A a \in {"ou", "ov"} :
            CanSet(last.pre, controlObj(last.other), a) =>
                MirrorOffset(a) =
                    IF last.args.opposingOffsets /\ OffsetOnAxis(a)
                    THEN 0 - SourceOffset(a)
                    ELSE SourceOffset(a)

\* C11 amended: with offsets selected, and both units having the offset
\* attributes, the mirror gets the source's offsetU and offsetV as they are
\* when opposing offsets are requested (the default); when they are not
\* requested the offset on the mirror axis gets the source's value with its
\* sign turned (no midpoint, no clamp) and the other offset the source's
\* value; an offset of the mirror that is locked or connected keeps its value.
C11_Offsets ==
    OffsetsCopied =>
        \A a \in {"ou", "ov"} :
            MirrorOffset(a) =
                IF ~CanSet(last.pre, controlObj(last.other), a)
                THEN MirrorOffsetBefore(a)
                ELSE IF ~last.args.opposingOffsets /\ OffsetOnAxis(a)
                THEN 0 - SourceOffset(a)
                ELSE SourceOffset(a)

\* opposing offsets not requested, axis u, source offsets 1.0 and -0.5: the
\* mirror, which had 0 and 0, has -1.0 and -0.5
C11_Witness ==
    /\ OffsetsCopied
    /\ ~last.args.opposingOffsets
    /\ last.args.axis = "u"
    /\ SourceOffset("ou") = 100
    /\ SourceOffset("ov") = -50
    /\ MirrorOffsetBefore("ou") = 0
    /\ MirrorOffsetBefore("ov") = 0
    /\ MirrorOffset("ou") = -100
    /\ MirrorOffset("ov") = -50

-----------------------------------------------------------------------------
(* getClosestUVs and FollicleJoint.transferToPatch *)

sCpt == <<"_", "c", "p", "t", "#">>

PatchTypes == {"nurbsSurface", "mesh"}

\* the loop over the points with keepCalcNode=False: a closest-point node is
\* made for each point, read (the host gives rawUVs[k] for point k) and
\* deleted; the uv of a NURBS patch is normalised unless notNormalised
RECURSIVE ClosestLoop(_, _, _, _, _)
ClosestLoop(sc, patch, rawUVs, notNormalised, outVals) ==
    IF rawUVs = <<>> THEN [sc |-> sc, raised |-> "none", outVals |-> outVals]
    ELSE LET isNurb == TypeOf(sc, patch) = "nurbsSurface"
             Read(s, cpt) ==
                 ClosestLoop(
                   Delete(s, cpt), patch, Tail(rawUVs), notNormalised,
                   Append(outVals,
                          IF isNurb
                          THEN normalisedNurbsUV(s, patch, Head(rawUVs),
                                                 notNormalised)
                          ELSE Head(rawUVs)))
         IN  Read(Connect(
                    CreateNode(sc,
                               IF isNurb THEN "closestPointOnSurface"
                               ELSE "closestPointOnMesh",
                               Nobody,
                               NameOf(sc, ParentOf(sc, patch)) \o sCpt, <<>>),
                    patch, IF isNurb THEN "worldSpace" ELSE "worldMesh",
                    Len(sc.nodes) + 1,
                    IF isNurb THEN "inputSurface" ELSE "inMesh"),
                  Len(sc.nodes) + 1)

\* getClosestUVs(patch, objs, keepCalcNode=False, notNormalised): rawUVs are
\* the closest uv values the host finds for the objects, one for each
getClosestUVs(sc, patch, objs, rawUVs, notNormalised) ==
    LET chosen == IF objs # <<>> THEN objs
                  ELSE SelectSeq(sc.sel,
                                 LAMBDA n : n # patch /\ n # ParentOf(sc, patch))
    IN  IF TypeOf(sc, patch) \notin PatchTypes
        THEN [sc |-> sc, raised |-> "TypeError", outVals |-> <<>>]
        ELSE IF chosen = <<>>
        THEN [sc |-> sc, raised |-> "StandardError", outVals |-> <<>>]
        ELSE ClosestLoop(sc, patch, SubSeq(rawUVs, 1, Len(chosen)),
                         notNormalised, <<>>)

\* the patch the patch property finds in the scene: the shape that feeds the
\* follicle, Nobody without one
patchOf(sc, agg) ==
    LET feeding(a, typ) ==
            {c.sn : c \in {d \in sc.conns : d.dn = agg.fol /\ d.da = a
                                               /\ TypeOf(sc, d.sn) = typ}}
    IN  IF agg.fol = Nobody THEN Nobody
        ELSE IF feeding("inputSurface", "nurbsSurface") # {}
        THEN First(feeding("inputSurface", "nurbsSurface"))
        ELSE First(feeding("inputMesh", "mesh"))

\* the patch property of an aggregate whose _patch holds cached (Nobody for
\* None): the patch is looked for in the scene only while _patch is empty,
\* and what is found is kept in _patch
patchProperty(sc, agg, cached) ==
    IF cached # Nobody THEN cached ELSE patchOf(sc, agg)

\* disconnectFromPatch: every connection from self.patch to the follicle goes
disconnectFromPatch(sc, agg, cached) ==
    [sc EXCEPT !.conns =
        {c \in @ : ~(c.dn = agg.fol /\ c.sn = patchProperty(sc, agg, cached))}]

\* pm.connectAttr(src, dst, f=1): the connection replaces the one dst has
ForceConnect(sc, sn, sa, dn, da) ==
    Connect([sc EXCEPT !.conns = {c \in @ : ~(c.dn = dn /\ c.da = da)}],
            sn, sa, dn, da)

\* no uv given
NoUV == <<>>

\* newUV after "newUV = outVals[0]": the method has no name outVals (it
\* stores the uv values in outUVVals), so the statement raises NameError
newUVAfterClosest(given, computed) ==
    IF given # NoUV THEN [raised |-> "none", uv |-> given]
    ELSE [raised |-> "NameError", uv |-> NoUV]

\* transferToPatch(patch, newUV, closestPt, useSmoothedMesh) on an aggregate
\* whose _patch holds cached: the scene after the call, what it raised and
\* what _patch holds after it; rawUV is the closest uv the host finds
transferToPatch(sc, agg, cached, patch, newUV, closestPt, useSmoothedMesh, rawUV) ==
    LET patchIsNurb == TypeOf(sc, patch) = "nurbsSurface"
        uvObj == controlObj(agg)
        Reconnected(s) ==
            [sc |-> ForceConnect(
                      ForceConnect(s, patch, "worldMatrix", agg.fol,
                                   "inputWorldMatrix"),
                      patch,
                      IF patchIsNurb THEN "local"
                      ELSE IF useSmoothedMesh THEN "outSmoothMesh"
                      ELSE "outMesh",
                      agg.fol,
                      IF patchIsNurb THEN "inputSurface" ELSE "inputMesh"),
             raised |-> "none"]
        \* uvObj.pu.set(newUV[0]-ofsU), uvObj.pv.set(newUV[1]-ofsV)
        Based(s, uv, ofsU, ofsV) ==
            IF ~CanSet(s, AttrNode(s, uvObj, "pu"), "pu")
            THEN [sc |-> s, raised |-> "RuntimeError"]
            ELSE IF ~CanSet(s, AttrNode(s, uvObj, "pv"), "pv")
            THEN [sc |-> SetVal(s, AttrNode(s, uvObj, "pu"), "pu", uv[1] - ofsU),
                  raised |-> "RuntimeError"]
            ELSE Reconnected(
                   SetVal(SetVal(s, AttrNode(s, uvObj, "pu"), "pu",
                                 uv[1] - ofsU),
                          AttrNode(s, uvObj, "pv"), "pv", uv[2] - ofsV))
        Disconnected(s, uv) ==
            IF ~closestPt THEN Reconnected(s)
            ELSE IF uvObj = Nobody \/ AttrNode(s, uvObj, "pu") = Nobody
                    \/ AttrNode(s, uvObj, "pv") = Nobody
            THEN [sc |-> s, raised |-> "AttributeError"]
            ELSE Based(s, uv,
                       Get(s, agg.fol, "pu") - Get(s, AttrNode(s, uvObj, "pu"), "pu"),
                       Get(s, agg.fol, "pv") - Get(s, AttrNode(s, uvObj, "pv"), "pv"))
        Kept(r, p) == [sc |-> r.sc, raised |-> r.raised, cached |-> p]
        Chosen(s, n) ==
            IF n.raised # "none"
            THEN [sc |-> s, raised |-> n.raised, cached |-> cached]
            ELSE Kept(Disconnected(disconnectFromPatch(s, agg, cached), n.uv),
                      patchProperty(s, agg, cached))
        Closest(c) ==
            IF c.raised # "none"
            THEN [sc |-> c.sc, raised |-> c.raised, cached |-> cached]
            ELSE Chosen(c.sc, newUVAfterClosest(newUV, c.outVals))
    IN  IF TypeOf(sc, patch) \notin PatchTypes
        THEN [sc |-> sc, raised |-> "TypeError", cached |-> cached]
        ELSE IF closestPt /\ newUV = NoUV
        THEN Closest(getClosestUVs(sc, patch,
                                   IF agg.xfm = Nobody THEN <<>> ELSE <<agg.xfm>>,
                                   <<rawUV>>, FALSE))
        ELSE Chosen(sc, [raised |-> "none", uv |-> newUV])

MaxPatches == 1

sOther == <<"q">>

\* the parameter ranges of the patch the units move to
OtherRanges == {<<0, 100>>, <<0, 200>>}

\* the closest uv values the host may find on the other patch
RawUVs == {<<40, 60>>, <<100, 50>>}

OtherPatches(sc) ==
    {n \in Alive(sc) : TypeOf(sc, n) \in PatchTypes /\ n # ThePatch}

\* the user makes another patch before any unit: a NURBS surface or a mesh
DoCreatePatch ==
    /\ Built
    /\ made = <<>>
    /\ Cardinality(OtherPatches(scene)) < MaxPatches
    /\ \E kind \in PatchTypes, range \in OtherRanges :
          /\ kind = "mesh" => range = <<0, 100>>
          /\ scene' =
                CreateNode(
                  CreateNode(scene, "transform", Nobody, sOther, [tx |-> 0]),
                  kind, Len(scene.nodes) + 1, sOther \o sShape,
                  IF kind = "mesh" THEN <<>>
                  ELSE [minValueU |-> range[1], maxValueU |-> range[2],
                        minValueV |-> 0, maxValueV |-> 100])
    /\ last' = [NoLast EXCEPT !.op = "createNode"]
    /\ UNCHANGED <<made, typeVars, panelVars, callVars, undoVars>>

DoNewForTransfer ==
    NewUnit(MaxUnits, {<<>>}, validTypes, {<<30, 70>>}, BOOLEAN, {DefaultRatio})

\* unit.transferToPatch(patch, newUV, closestPt) on a scene that no transfer
\* has written to, for the aggregate new() made: its _patch holds the patch
\* new() was given
DoTransferToPatch ==
    /\ last.op \in {"new", "edit"}
    /\ \E i \in 1..Len(made), patch \in OtherPatches(scene),
          newUV \in {NoUV, <<40, 60>>}, closestPt \in BOOLEAN,
          rawUV \in RawUVs :
          \E r \in {transferToPatch(scene, made[i].agg, ThePatch, patch,
                                   newUV, closestPt, TRUE, rawUV)} :
              /\ scene' = r.sc
              /\ last' = [NoLast EXCEPT
                            !.op = "transferToPatch", !.result = r.raised,
                            !.agg = made[i].agg, !.pre = scene,
                            !.args = [patch |-> patch, newUV |-> newUV,
                                      closestPt |-> closestPt,
                                      rawUV |-> rawUV]]
    /\ UNCHANGED <<made, typeVars, panelVars, callVars, undoVars>>

TransferNext ==
    \/ DoCreatePatch
    \/ DoNewForTransfer
    \/ DoSetOffsetBefore
    \/ DoLockBase
    \/ DoTransferToPatch

SpecTransfer == SceneSpecInit /\ [][TransferNext]_vars

\* the latest call was transferToPatch(patch) with closest-point relocation
\* and no uv, for a unit whose base parameters can be written
ClosestTransfer ==
    /\ last.op = "transferToPatch"
    /\ last.args.closestPt
    /\ last.args.newUV = NoUV
    /\ CanSet(last.pre, AttrNode(last.pre, controlObj(last.agg), "pu"), "pu")
    /\ CanSet(last.pre, AttrNode(last.pre, controlObj(last.agg), "pv"), "pv")

\* the nearest uv of the unit on the new patch, as getClosestUVs returns it
NearestUV ==
    IF TypeOf(last.pre, last.args.patch) = "nurbsSurface"
    THEN normalisedNurbsUV(last.pre, last.args.patch, last.args.rawUV, FALSE)
    ELSE last.args.rawUV

BaseOf(sc, a) == Get(sc, AttrNode(sc, controlObj(last.agg), a), a)

LiveOf(sc, a) == Get(sc, last.agg.fol, a)

\* C12: a transfer with closest-point relocation and no explicit uv completes
\* without error, writes base = nearest uv - (live - old base) on both axes,
\* has the follicle fed by the new patch's world matrix and geometry, and
\* leaves the live parameter equal to the nearest uv
C12_TransferClosest ==
    ClosestTransfer =>
        /\ last.result = "none"
        /\ \A k \in 1..2 :
              LET a == <<"pu", "pv">>[k]
              IN  /\ BaseOf(scene, a) =
                        NearestUV[k] - (LiveOf(last.pre, a) - BaseOf(last.pre, a))
                  /\ LiveOf(scene, a) = NearestUV[k]
        /\ patchOf(scene, last.agg) = last.args.patch
        /\ [sn |-> last.args.patch, sa |-> "worldMatrix", dn |-> last.agg.fol,
            da |-> "inputWorldMatrix"] \in scene.conns

-----------------------------------------------------------------------------
(* rename of one unit among nodes that hold some of the names *)

\* names of joints that belong to no unit: "a1", "a2", "a_J_2", "a_offset_1"
\* and "a2Shape"
RenameBlockers ==
    {<<"a", "1">>, <<"a", "2">>, <<"a", "_", "J", "_", "2">>,
     <<"a", "_", "o", "f", "f", "s", "e", "t", "_", "1">>,
     <<"a", "2">> \o sShape}

\* the names asked for: "a#", "a", "a2", "b07" and None
RenameRequests ==
    {<<"a", "#">>, <<"a">>, <<"a", "2">>, <<"b", "0", "7">>, NoneName}

\* the renameFormats of the docstring's advanced use:
\* 'main' "{pre}_offset_{num}{suf}", 'j' "{pre}{num}{suf}"
offsetFormats == [main |-> <<"_", "o", "f", "f", "s", "e", "t", "_">>, j |-> <<>>]

DoCreateBlocker ==
    /\ last.op \in {"none", "createNode"}
    /\ made = <<>>
    /\ Cardinality(Strays(scene)) < MaxBlockers
    /\ \E nm \in RenameBlockers :
          /\ ~objExists(scene, nm)
          /\ scene' = CreateNode(scene, "joint", Nobody, nm, [radius |-> 100])
    /\ last' = [NoLast EXCEPT !.op = "createNode"]
    /\ UNCHANGED <<made, typeVars, panelVars, callVars, undoVars>>

DoNewForRename ==
    NewUnit(MaxAutoUnits, {<<"a", "#">>}, validTypes, {<<30, 70>>}, {FALSE},
            {DefaultRatio})

\* unit.rename(name, dontApply, skipPreRename, renameFormats)
DoRename ==
    /\ last.op = "new"
    /\ \E i \in 1..Len(made), name \in RenameRequests,
          dontApply \in BOOLEAN, skipPreRename \in BOOLEAN,
          formats \in {renameFormats, offsetFormats} :
          \E r \in {rename(scene, made[i].agg, name, dontApply, skipPreRename,
                          formats)} :
              /\ scene' = r.sc
              /\ last' = [NoLast EXCEPT
                            !.op = "rename", !.result = r.raised,
                            !.agg = made[i].agg, !.pre = scene,
                            !.args = [name |-> name, dontApply |-> dontApply,
                                      skipPreRename |-> skipPreRename,
                                      formats |-> formats,
                                      newNames |-> r.newNames]]
    /\ UNCHANGED <<made, typeVars, panelVars, callVars, undoVars>>

RenameNext ==
    \/ DoCreateBlocker
    \/ DoNewForRename
    \/ DoRename

SpecRename == SceneSpecInit /\ [][RenameNext]_vars

\* the latest call was a rename that applies its names
AppliedRename == last.op = "rename" /\ ~last.args.dontApply

Renamed == RenameRoles(last.agg)

RenamedNode(r) == RoleNode(last.agg, r)

\* the parts of the name asked for: the current name when none was given
Asked == ParseName(last.args.name, NameOf(last.pre, nameObj(last.agg)))

\* the template of role r formatted with number k
Formatted(r, k) ==
    joinNumberedName(Asked.pre, k, Asked.suf, Asked.numBuffer,
                     last.args.formats[r])

RenameNoOp ==
    \A r \in Renamed : Formatted(r, Asked.num) = NameOf(last.pre, RenamedNode(r))

\* the names held in the scene while the number is sought: the roles' own
\* names are out of the way unless the placeholder rename was skipped
HeldNames ==
    {NameOf(last.pre, n) :
        n \in {m \in Alive(last.pre) :
                  last.args.skipPreRename \/ \A r \in Renamed : m # RenamedNode(r)}}

Collides(k) == \E r \in Renamed : Formatted(r, k) \in HeldNames

NamesUnique(sc) ==
    \A n, m \in Alive(sc) : n # m => NameOf(sc, n) # NameOf(sc, m)

-----------------------------------------------------------------------------
(* newFollicleGrid *)

\* cq.filterSelectionForShapeType(objs, ['nurbsSurface', 'mesh'])[0]: the
\* first patch shape among the objects (the selection when none is given),
\* else the first under their transforms; Nobody stands for the TypeError
filterSelectionForShapeType(sc, objs) ==
    LET given == SelectSeq(IF objs # <<>> THEN objs ELSE sc.sel,
                           LAMBDA n : n \in Alive(sc))
        shapes == SelectSeq(given, LAMBDA n : TypeOf(sc, n) \in PatchTypes)
        under(n) == {c \in Alive(sc) : ParentOf(sc, c) = n
                                        /\ TypeOf(sc, c) \in PatchTypes}
        xforms == SelectSeq(given, LAMBDA n : /\ TypeOf(sc, n) = "transform"
                                              /\ under(n) # {})
    IN  IF shapes # <<>> THEN Head(shapes)
        ELSE IF xforms # <<>> THEN First(under(Head(xforms)))
        ELSE Nobody

\* an item None of uvRange
uvRangeNone == -1

uvRangeDefault == <<0, 100, 0, 100>>

\* a row position that leaves out the half spacing of rows that are not
\* edge bounded
normRowFromEdge(i, rows, edgeBounded) == (i * 100) \div (rows - edgeBounded)

\* normU, normV: (float(i)+(1-edgeBounded)/2.0)/(uvRows-edgeBounded), in
\* hundredths
normRow(i, rows, edgeBounded) ==
    (i * 100 + ((1 - edgeBounded) * 100) \div 2) \div (rows - edgeBounded)

\* the cells of the two loops in the order they run: i outside, j inside
GridCells(uvRows) ==
    [k \in 1..(uvRows[1] * uvRows[2]) |->
        <<(k - 1) \div uvRows[2], (k - 1) % uvRows[2]>>]

\* the loops: a new unit at every cell, collected in newFols
RECURSIVE GridLoop(_, _, _, _, _, _, _, _, _)
GridLoop(sc, patch, name, cells, uvRows, edgeBounded, uvRange, kw, newFols) ==
    IF cells = <<>> THEN [sc |-> sc, raised |-> "none", fols |-> newFols]
    ELSE LET uv == <<uvRange[1] + Mul(normRow(Head(cells)[1], uvRows[1],
                                              edgeBounded[1]),
                                      uvRange[2] - uvRange[1]),
                     uvRange[3] + Mul(normRow(Head(cells)[2], uvRows[2],
                                              edgeBounded[2]),
                                      uvRange[4] - uvRange[3])>>
             Made(r) ==
                 IF r.raised # "none"
                 THEN [sc |-> r.sc, raised |-> r.raised, fols |-> newFols]
                 ELSE GridLoop(r.sc, patch, name, Tail(cells), uvRows,
                               edgeBounded, uvRange, kw, Append(newFols, r.agg))
         IN  Made(new(sc, patch, name, uv, kw.folType, DefaultRadius, kw.attrs,
                      DefaultRatio, FALSE))

\* newFollicleGrid(patch, name, selectNew, uvRows, edgeBounded, uvRange,
\* folType=, attrs=): the scene, what was raised and the units made
newFollicleGrid(sc, patch, name, selectNew, uvRows, edgeBounded, uvRange, kw) ==
    LET patchTest ==
            filterSelectionForShapeType(sc, IF patch = Nobody THEN <<>>
                                            ELSE <<patch>>)
        range == [k \in 1..4 |-> IF uvRange[k] = uvRangeNone
                                 THEN uvRangeDefault[k] ELSE uvRange[k]]
        Selected(r) ==
            IF r.raised # "none" \/ ~selectNew THEN r
            ELSE [r EXCEPT !.sc.sel =
                     [k \in 1..Len(r.fols) |-> controlObj(r.fols[k])]]
    IN  IF \E k \in 1..2 : uvRows[k] - edgeBounded[k] = 0
        THEN [sc |-> sc, raised |-> "StandardError", fols |-> <<>>]
        ELSE IF patchTest = Nobody
        THEN [sc |-> sc, raised |-> "TypeError", fols |-> <<>>]
        ELSE Selected(GridLoop(sc, patchTest, name, GridCells(uvRows), uvRows,
                               edgeBounded, range, kw, <<>>))

MaxRows == 3

\* uvRange as given: all None, or [0.2, 0.6, None, None]
GridRanges ==
    {<<uvRangeNone, uvRangeNone, uvRangeNone, uvRangeNone>>,
     <<20, 60, uvRangeNone, uvRangeNone>>}

\* newFollicleGrid(patch, None, selectNew, uvRows, edgeBounded, uvRange,
\* folType=folType, attrs=attrs) in a scene without units; patch is a patch
\* shape, a patch transform, or None with nothing selected
DoNewFollicleGrid ==
    /\ Built
    /\ made = <<>>
    /\ \E patch \in {Nobody, 1} \cup OtherPatches(scene),
          uvRows \in (0..MaxRows) \X (0..MaxRows),
          edgeBounded \in {0, 1} \X {0, 1}, uvRange \in GridRanges,
          folType \in {T_F, TJ_F}, attrs \in BOOLEAN, selectNew \in BOOLEAN :
          \E r \in {newFollicleGrid(scene, patch, <<>>, selectNew, uvRows,
                                   edgeBounded, uvRange,
                                   [folType |-> folType, attrs |-> attrs])} :
              /\ scene' = r.sc
              /\ made' = [k \in 1..Len(r.fols) |->
                            [folType |-> folType, uv |-> <<>>, attrs |-> attrs,
                             fol |-> r.fols[k].fol, agg |-> r.fols[k],
                             nodes |-> {r.fols[k].xfm, r.fols[k].fol,
                                        r.fols[k].jnt} \ {Nobody}]]
              /\ last' = [NoLast EXCEPT
                            !.op = "newFollicleGrid", !.result = r.raised,
                            !.fols = r.fols, !.pre = scene,
                            !.args = [patch |-> patch, uvRows |-> uvRows,
                                      edgeBounded |-> edgeBounded,
                                      uvRange |-> uvRange]]
    /\ UNCHANGED <<typeVars, panelVars, callVars, undoVars>>

GridNext ==
    \/ DoCreatePatch
    \/ DoNewFollicleGrid

SpecGrid == SceneSpecInit /\ [][GridNext]_vars

GridCalled == last.op = "newFollicleGrid"

Rows(k) == last.args.uvRows[k]

EdgeBounded(k) == last.args.edgeBounded[k] = 1

\* the uv range of axis k, the unit range where none was given
RangeMin(k) ==
    IF last.args.uvRange[2 * k - 1] = uvRangeNone THEN 0
    ELSE last.args.uvRange[2 * k - 1]

RangeMax(k) ==
    IF last.args.uvRange[2 * k] = uvRangeNone THEN 100
    ELSE last.args.uvRange[2 * k]

\* the position of row i of axis k, in hundredths: i/(n-1) when the axis is
\* edge bounded, (i + 1/2)/n when it is not, mapped into the range
RowAt(k, i) ==
    RangeMin(k) +
    Mul(IF EdgeBounded(k) THEN (i * 100) \div (Rows(k) - 1)
        ELSE ((2 * i + 1) * 100) \div (2 * Rows(k)),
        RangeMax(k) - RangeMin(k))

Follicles(sc) == {n \in Alive(sc) : TypeOf(sc, n) = "follicle"}

\* C14: a grid call that returns has made Rows(1) * Rows(2) units, the unit of
\* row i of U and row j of V at RowAt(1, i), RowAt(2, j); rows [2, 1] with
\* edge bounds [1, 0] on the unit range are at u = 0.0 and 1.0, v = 0.5
C14_Grid ==
    (GridCalled /\ last.result = "none") =>
        /\ Len(last.fols) = Rows(1) * Rows(2)
        /\ Cardinality(Follicles(scene)) = Rows(1) * Rows(2)
        /\ Cardinality({last.fols[k].fol : k \in 1..Len(last.fols)})
              = Rows(1) * Rows(2)
        /\ \A i \in 0..(Rows(1) - 1), j \in 0..(Rows(2) - 1) :
              LET fol == last.fols[i * Rows(2) + j + 1].fol
              IN  /\ Get(scene, fol, "pu") = RowAt(1, i)
                  /\ Get(scene, fol, "pv") = RowAt(2, j)
        /\ (/\ last.args.uvRows = <<2, 1>>
            /\ last.args.edgeBounded = <<1, 0>>
            /\ RangeMin(1) = 0 /\ RangeMax(1) = 100)
           => /\ Get(scene, last.fols[1].fol, "pu") = 0
              /\ Get(scene, last.fols[2].fol, "pu") = 100
              /\ Get(scene, last.fols[1].fol, "pv") = 50
              /\ Get(scene, last.fols[2].fol, "pv") = 50

\* a grid of three rows that are not edge bounded by two that are, on the
\* range [0.2, 0.6] of U
C14_Witness ==
    /\ GridCalled
    /\ last.result = "none"
    /\ last.args.uvRows = <<3, 2>>
    /\ last.args.edgeBounded = <<0, 1>>
    /\ RangeMin(1) = 20
    /\ Len(last.fols) = 6
    /\ Get(scene, last.fols[1].fol, "pu") = 26
    /\ Get(scene, last.fols[3].fol, "pu") = 40
    /\ Get(scene, last.fols[4].fol, "pv") = 100

\* C15: the grid call fails with the error for too few rows, with the scene
\* as it was, exactly when some axis is edge bounded with fewer than 2 rows
C15_TooFewRows ==
    GridCalled =>
        ((last.result = "StandardError" /\ scene = last.pre)
            <=> \E k \in 1..2 : EdgeBounded(k) /\ Rows(k) < 2)

-----------------------------------------------------------------------------
(* The UI panel: getUIVals, storeUI, loadUI, resetUI *)

\* getUIVals.uiElements in its order, with one control of each kind: the
\* controls left out are of these kinds and go through the same branches
uiElements ==
    <<"self", "arrange_rbnGrp", "gridU_num", "gridBoundU_chk", "name_txt",
      "jointRad_fl", "setupSection", "helperSection">>

\* the class each isinstance chain finds for the element
WidgetClass ==
    [self |-> "UI", arrange_rbnGrp |-> "QButtonGroup", gridU_num |-> "QSpinBox",
     gridBoundU_chk |-> "QCheckBox", name_txt |-> "QLineEdit",
     jointRad_fl |-> "QDoubleSpinBox", setupSection |-> "CollapsingArea",
     helperSection |-> "CollapsingArea"]

Controls == Range(uiElements) \ {"self"}

\* the values a user can give a control: ids of the radio buttons, row
\* counts, checked or not, texts, a radius in thousandths, collapsed or not
ControlValues(name) ==
    CASE WidgetClass[name] = "QButtonGroup" -> {0, 1, 2}
      [] WidgetClass[name] = "QSpinBox" -> {1, 5}
      [] WidgetClass[name] = "QCheckBox" -> BOOLEAN
      [] WidgetClass[name] = "QLineEdit" ->
            {<<"f", "o", "l", "J", "n", "t", "#">>, <<>>}
      [] WidgetClass[name] = "QDoubleSpinBox" -> {500, 1250}
      [] WidgetClass[name] = "CollapsingArea" -> BOOLEAN

\* the sizes and positions a user can give the floating window
UserSizes == {<<3, 4>>, <<5, 2>>}

UserPositions == {<<0, 0>>, <<7, 1>>}

\* scrollAreaWidgetContents.sizeHint(): the layout's size for the sections
\* that are open
sizeHint(vals) ==
    <<3, 1 + (IF vals["setupSection"] THEN 0 ELSE 2)
           + (IF vals["helperSection"] THEN 0 ELSE 1)>>

\* the panel as setupUi leaves it, floating
NewPanel ==
    [floating |-> TRUE, size |-> <<3, 4>>, pos |-> <<0, 0>>, dockArea |-> 0,
     touched |-> 0,
     vals |-> [arrange_rbnGrp |-> 0, gridU_num |-> 5, gridBoundU_chk |-> TRUE,
               name_txt |-> <<"f", "o", "l", "J", "n", "t", "#">>,
               jointRad_fl |-> 500, setupSection |-> FALSE,
               helperSection |-> FALSE]]

\* values as the store holds them and gives them back
IntVal(n) == [t |-> "int", v |-> n]

FloatVal(x) == [t |-> "float", v |-> x]

TextVal(s) == [t |-> "text", v |-> s]

ListVal(items) == [t |-> "list", v |-> items]

\* int(b) of a bool
BoolInt(b) == IF b THEN 1 ELSE 0

\* the text of a float in thousandths, as "1.250"
FloatStr(x) == NumStr(x \div 1000) \o <<".">> \o ZeroPad(NumStr(x % 1000), 3)

\* float(val) and int(item): a text is parsed, a number is kept
ToFloat(val) ==
    IF val.t # "text" THEN val.v
    ELSE LET dot == CHOOSE k \in 1..Len(val.v) : val.v[k] = "."
         IN  1000 * StrNum(SubSeq(val.v, 1, dot - 1))
               + StrNum(SubSeq(val.v, dot + 1, dot + 3))

ToInt(item) == IF item.t = "text" THEN StrNum(item.v) ELSE item.v

\* getUIVals()[0]: the setting of every element
getUIVals(p) ==
    [name \in Range(uiElements) |->
        CASE WidgetClass[name] = "UI" ->
                ListVal(<<IntVal(BoolInt(p.floating)), IntVal(p.size[1]),
                          IntVal(p.size[2]), IntVal(p.pos[1]),
                          IntVal(p.pos[2]), IntVal(p.dockArea)>>)
          [] WidgetClass[name] \in {"CollapsingArea", "QCheckBox"} ->
                IntVal(BoolInt(p.vals[name]))
          [] WidgetClass[name] \in {"QButtonGroup", "QSpinBox"} ->
                IntVal(p.vals[name])
          [] WidgetClass[name] = "QDoubleSpinBox" -> FloatVal(p.vals[name])
          [] WidgetClass[name] = "QLineEdit" -> TextVal(p.vals[name])]

\* settings.value(name, None) of a stored value: whole numbers and texts
\* come back as they were put; a float, and the items of a list, come back
\* as numbers or as their text, which is why loadUI converts them
StoreGives(val, asText) ==
    IF ~asText THEN val
    ELSE IF val.t = "float" THEN TextVal(FloatStr(val.v))
    ELSE IF val.t = "list"
    THEN ListVal([k \in 1..Len(val.v) |-> TextVal(NumStr(val.v[k].v))])
    ELSE val

\* _adjustFloatingSize: a floating window is resized to fit its contents
adjustFloatingSize(p) ==
    IF p.floating THEN [p EXCEPT !.size = sizeHint(p.vals)] ELSE p

\* CollapsingArea.toggleCollapsed, with the collapseChanged signal that is
\* connected to _adjustFloatingSize
toggleCollapsed(p, name) ==
    adjustFloatingSize([p EXCEPT !.vals[name] = ~@])

\* a load that sets a section to the stored flag without the signal
LoadSectionQuietly(p, name, val) == [p EXCEPT !.vals[name] = (val.v # 0)]

\* the CollapsingArea branch of loadUI
LoadSection(p, name, val) ==
    IF IntVal(BoolInt(p.vals[name])) # val THEN toggleCollapsed(p, name) ELSE p

\* the branch of loadUI for one element; docked is the size the host gives
\* a panel that it docks beside the attribute editor
LoadElement(p, name, val, ignoreFloating, docked) ==
    CASE WidgetClass[name] = "UI" ->
            IF ignoreFloating THEN p
            ELSE IF ToInt(val.v[1]) # 0
            THEN [p EXCEPT !.floating = TRUE,
                           !.size = <<ToInt(val.v[2]), ToInt(val.v[3])>>,
                           !.pos = <<ToInt(val.v[4]), ToInt(val.v[5])>>]
            ELSE [p EXCEPT !.floating = FALSE, !.size = docked]
      [] WidgetClass[name] = "CollapsingArea" -> LoadSection(p, name, val)
      [] WidgetClass[name] = "QButtonGroup" ->
            IF val.v \in ControlValues(name)
            THEN [p EXCEPT !.vals[name] = val.v] ELSE p
      [] WidgetClass[name] = "QDoubleSpinBox" ->
            [p EXCEPT !.vals[name] = ToFloat(val)]
      [] WidgetClass[name] = "QSpinBox" -> [p EXCEPT !.vals[name] = val.v]
      [] WidgetClass[name] = "QCheckBox" -> [p EXCEPT !.vals[name] = (val.v # 0)]
      [] WidgetClass[name] = "QLineEdit" -> [p EXCEPT !.vals[name] = val.v]

\* the for loop of loadUI over the elements from k on; source maps a name
\* to its value, a name outside its domain has the value None
RECURSIVE LoadFrom(_, _, _, _, _, _)
LoadFrom(p, k, source, asText, ignoreFloating, docked) ==
    IF k > Len(uiElements) THEN p
    ELSE LoadFrom(IF uiElements[k] \notin DOMAIN source THEN p
                  ELSE LoadElement(p, uiElements[k],
                                   StoreGives(source[uiElements[k]], asText),
                                   ignoreFloating, docked),
                  k + 1, source, asText, ignoreFloating, docked)

\* loadUI(revertToDefault, ignoreFloating=ignoreFloating)
loadUI(p, store, defaults, revertToDefault, asText, ignoreFloating, docked) ==
    IF revertToDefault
    THEN LoadFrom(p, 1, defaults, FALSE, ignoreFloating, docked)
    ELSE LoadFrom(p, 1, store, asText, ignoreFloating, docked)

MaxTouches == 3

PanelInit ==
    /\ panel = NewPanel
    /\ settings = <<>>
    /\ DockIdle
    /\ callIn = [fn |-> "init"]
    /\ callOut = NewPanel

\* the user changes a control; a click on a section's bar toggles it
DoChangeControl ==
    /\ panel.touched < MaxTouches
    /\ \E name \in Controls : \E v \in ControlValues(name) :
          /\ v # panel.vals[name]
          /\ panel' = [(IF WidgetClass[name] = "CollapsingArea"
                        THEN toggleCollapsed(panel, name)
                        ELSE [panel EXCEPT !.vals[name] = v])
                          EXCEPT !.touched = panel.touched + 1]
    /\ callIn' = [fn |-> "change"]
    /\ UNCHANGED <<settings, dock, eventQueue, callOut, typeVars, sceneVars, undoVars>>

\* the user docks the panel, floats it, moves or resizes the floating window
DoPlacePanel ==
    /\ panel.touched < MaxTouches
    /\ \E floating \in BOOLEAN, size \in UserSizes, pos \in UserPositions :
          /\ <<floating, size, pos>> # <<panel.floating, panel.size, panel.pos>>
          /\ panel' = [panel EXCEPT !.floating = floating, !.size = size,
                                    !.pos = pos, !.touched = @ + 1]
    /\ callIn' = [fn |-> "place"]
    /\ UNCHANGED <<settings, dock, eventQueue, callOut, typeVars, sceneVars, undoVars>>

\* storeUI(): every setting is written to the store
DoStoreUI ==
    /\ callIn.fn \in {"init", "change", "place"}
    /\ settings' = getUIVals(panel)
    /\ callIn' = [fn |-> "storeUI"]
    /\ UNCHANGED <<panel, dock, eventQueue, callOut, typeVars, sceneVars, undoVars>>

\* loadUI(ignoreFloating=ignoreFloating)
DoLoadUI ==
    /\ callIn.fn \in {"storeUI", "change", "place"}
    /\ \E ignoreFloating \in BOOLEAN, asText \in BOOLEAN, docked \in UserSizes :
          /\ panel' = [loadUI(panel, settings, callOut.vals, FALSE, asText,
                              ignoreFloating, docked) EXCEPT !.touched = MaxTouches]
          /\ callIn' = [fn |-> "loadUI", ignoreFloating |-> ignoreFloating,
                        before |-> panel]
    /\ UNCHANGED <<settings, dock, eventQueue, callOut, typeVars, sceneVars, undoVars>>

\* resetUI(): loadUI(self.defaultUIOptions), which does not read the store
DoResetUI ==
    /\ callIn.fn \in {"change", "place"}
    /\ settings = <<>>
    /\ \E docked \in UserSizes :
          panel' = [loadUI(panel, settings, getUIVals(callOut), TRUE, FALSE,
                           FALSE, docked) EXCEPT !.touched = MaxTouches]
    /\ callIn' = [fn |-> "resetUI", before |-> panel]
    /\ UNCHANGED <<settings, dock, eventQueue, callOut, typeVars, sceneVars, undoVars>>

PanelNext ==
    \/ DoChangeControl
    \/ DoPlacePanel
    \/ DoStoreUI
    \/ DoLoadUI
    \/ DoResetUI

PanelSpecInit == PanelInit /\ TypeIdle /\ SceneIdle /\ UndoIdle

SpecPanel == PanelSpecInit /\ [][PanelNext]_vars

\* the latest call was a loadUI of stored preferences
Loaded == callIn.fn = "loadUI" /\ settings # <<>>

\* the control has the value that was stored for it
Restored(name) ==
    IF WidgetClass[name] \in {"CollapsingArea", "QCheckBox"}
    THEN settings[name].v = BoolInt(panel.vals[name])
    ELSE settings[name].v = panel.vals[name]

\* the load found a section with another collapsed flag than the stored one
SectionChanged ==
    \E name \in {"setupSection", "helperSection"} :
        callIn.before.vals[name] # panel.vals[name]

\* C16 as stated: every control has its stored value after the load, and a
\* load that suppresses the dock placement leaves floating flag, position
\* and size as they were
C16_RestoredAsStated ==
    Loaded =>
        /\ \A name \in Controls : Restored(name)
        /\ callIn.ignoreFloating =>
              /\ panel.floating = callIn.before.floating
              /\ panel.pos = callIn.before.pos
              /\ panel.size = callIn.before.size

\* C16: every control has its stored value after the load; a load that
\* suppresses the dock placement leaves the floating flag and the position
\* as they were, and the size too unless the panel floats and the load
\* changed a section's collapsed flag: the window then has the size that
\* fits its contents
C16_Restored ==
    Loaded =>
        /\ \A name \in Controls : Restored(name)
        /\ callIn.ignoreFloating =>
              /\ panel.floating = callIn.before.floating
              /\ panel.pos = callIn.before.pos
              /\ panel.size =
                    IF panel.floating /\ SectionChanged
                    THEN sizeHint(panel.vals) ELSE callIn.before.size

\* a load without dock placement that found a section and another control
\* changed since the store, and resized the floating window
C16_Witness ==
    /\ Loaded
    /\ callIn.ignoreFloating
    /\ SectionChanged
    /\ \E name \in Controls :
          /\ WidgetClass[name] # "CollapsingArea"
          /\ callIn.before.vals[name] # panel.vals[name]
    /\ panel.size # callIn.before.size

-----------------------------------------------------------------------------
(* splitNumberedName and joinNumberedName on their own *)

MaxNameLen == 4

NameChars == {"a", "_", "4", "5"}

sThis45name == <<"t", "h", "i", "s", "4", "5", "n", "a", "m", "e">>

sPizza == <<"p", "i", "z", "z", "a", "_">>

sOrder == <<"_", "o", "r", "d", "e", "r">>

SplitCalls ==
    {[fn |-> "splitNumberedName", name |-> n] :
        n \in SeqsUpTo(NameChars, MaxNameLen) \cup {sThis45name}}

\* num as None, '', 0, 7, 23, 123, '007' and '23'
NumArgs ==
    {[t |-> "none", v |-> 0], [t |-> "str", v |-> <<>>],
     [t |-> "str", v |-> <<"0", "0", "7">>], [t |-> "str", v |-> <<"2", "3">>]}
    \cup {[t |-> "int", v |-> n] : n \in {0, 7, 23, 123}}

Paddings == {0, 1, 3}

Prefixes == {sPizza, <<"a">>, <<>>}

Suffixes == {sOrder, <<"b", "2">>, <<>>}

JoinCalls ==
    {[fn |-> "joinNumberedName", prefix |-> pre, num |-> num, suffix |-> suf,
      numPadding |-> pad] :
        pre \in Prefixes, num \in NumArgs, suf \in Suffixes, pad \in Paddings}

\* templates with one '#' and templates without
NameDefs ==
    {pre \o <<"#">> \o suf : pre \in Prefixes, suf \in Suffixes}
    \cup {sPizza, <<"a">>}

JoinDefCalls ==
    {[fn |-> "joinNumberedNameDef", nameDef |-> def, num |-> num,
      numPadding |-> pad] :
        def \in NameDefs, num \in NumArgs, pad \in Paddings}

NotCalled == <<"not called">>

NamesInit ==
    /\ callIn \in SplitCalls \cup JoinCalls \cup JoinDefCalls
    /\ callOut = NotCalled
    /\ panel = <<>>
    /\ settings = <<>>
    /\ DockIdle

\* callOut = splitNumberedName(name)
DoSplitNumberedName ==
    /\ callIn.fn = "splitNumberedName"
    /\ callOut = NotCalled
    /\ callOut' = splitNumberedName(callIn.name, DigitChars)
    /\ UNCHANGED <<callIn, panelVars, typeVars, sceneVars, undoVars>>

\* callOut = joinNumberedName(prefix, num, suffix, numPadding)
DoJoinNumberedName ==
    /\ callIn.fn = "joinNumberedName"
    /\ callOut = NotCalled
    /\ callOut' = joinNumberedName(callIn.prefix, NumArg(callIn.num),
                                   callIn.suffix, callIn.numPadding, <<>>)
    /\ UNCHANGED <<callIn, panelVars, typeVars, sceneVars, undoVars>>

\* callOut = joinNumberedName(nameDef=nameDef, num=num, numPadding=numPadding)
DoJoinNumberedNameDef ==
    /\ callIn.fn = "joinNumberedNameDef"
    /\ callOut = NotCalled
    /\ callOut' = joinNumberedNameDef(callIn.nameDef, NumArg(callIn.num),
                                      callIn.numPadding)
    /\ UNCHANGED <<callIn, panelVars, typeVars, sceneVars, undoVars>>

NamesNext ==
    \/ DoSplitNumberedName
    \/ DoJoinNumberedName
    \/ DoJoinNumberedNameDef

NamesSpecInit == NamesInit /\ TypeIdle /\ SceneIdle /\ UndoIdle

SpecNames == NamesSpecInit /\ [][NamesNext]_vars

SplitDone == callIn.fn = "splitNumberedName" /\ callOut # NotCalled

HasDigit(s) == \E k \in 1..Len(s) : s[k] \in DigitChars

AllDigits(s) == \A k \in 1..Len(s) : s[k] \in DigitChars

\* C17: the three parts of splitNumberedName make up the name; the suffix
\* has no digit, the number is the last run of digits with no digit before
\* it, and a name without a digit comes back whole as the prefix;
\* "this45name" gives ("this", "45", "name")
C17_Split ==
    SplitDone =>
        /\ callOut[1] \o callOut[2] \o callOut[3] = callIn.name
        /\ ~HasDigit(callOut[3])
        /\ AllDigits(callOut[2])
        /\ HasDigit(callIn.name) =>
              /\ callOut[2] # <<>>
              /\ callOut[1] = <<>> \/ Last(callOut[1]) \notin DigitChars
        /\ ~HasDigit(callIn.name) => callOut = <<callIn.name, <<>>, <<>>>>
        /\ callIn.name = sThis45name =>
              callOut = <<<<"t", "h", "i", "s">>, <<"4", "5">>,
                          <<"n", "a", "m", "e">>>>

\* the split of a name with two runs of digits, and the split of a name
\* without a digit
C17_Witness ==
    \/ /\ SplitDone
       /\ callIn.name = <<"4", "a", "5", "_">>
       /\ callOut = <<<<"4", "a">>, <<"5">>, <<"_">>>>
    \/ /\ SplitDone
       /\ callIn.name = <<"a", "_">>
       /\ callOut[1] = callIn.name

JoinDone == callIn.fn = "joinNumberedName" /\ callOut # NotCalled

JoinDefDone == callIn.fn = "joinNumberedNameDef" /\ callOut # NotCalled

\* the number asked for: -1 for None and ''
AskedNumber ==
    IF callIn.num.t = "none" THEN -1
    ELSE IF callIn.num.t = "int" THEN callIn.num.v
    ELSE IF callIn.num.v = <<>> THEN -1
    ELSE StrNum(callIn.num.v)

\* the number left-padded with zeros to the width
Padded(n, width) ==
    IF n = -1 THEN <<>>
    ELSE [k \in 1..(IF width > Len(NumStr(n)) THEN width - Len(NumStr(n))
                    ELSE 0) |-> "0"] \o NumStr(n)

HashAt(def) == CHOOSE k \in 1..Len(def) : def[k] = "#"

\* C18: the join is prefix + padded number + suffix, without the number when
\* it is None or empty; the '#' template of the same parts gives the same
\* string; ("pizza_", 23, "_order", 3) and "pizza_#_order" give
\* "pizza_023_order"; a template without '#' fails with the TypeError
C18_Join ==
    /\ JoinDone =>
          /\ callOut = callIn.prefix \o Padded(AskedNumber, callIn.numPadding)
                          \o callIn.suffix
          /\ (callIn.prefix = sPizza /\ callIn.suffix = sOrder
                 /\ AskedNumber = 23 /\ callIn.numPadding = 3)
             => callOut = sPizza \o <<"0", "2", "3">> \o sOrder
    /\ JoinDefDone =>
          IF "#" \in Range(callIn.nameDef)
          THEN callOut =
                 SubSeq(callIn.nameDef, 1, HashAt(callIn.nameDef) - 1)
                    \o Padded(AskedNumber, callIn.numPadding)
                    \o SubSeq(callIn.nameDef, HashAt(callIn.nameDef) + 1,
                              Len(callIn.nameDef))
          ELSE callOut = <<"TypeError">>

\* the template "pizza_#_order" with the number '23' and width 3
C18_Witness ==
    /\ JoinDefDone
    /\ callIn.nameDef = sPizza \o <<"#">> \o sOrder
    /\ callIn.num = [t |-> "str", v |-> <<"2", "3">>]
    /\ callIn.numPadding = 3
    /\ callOut = sPizza \o <<"0", "2", "3">> \o sOrder

-----------------------------------------------------------------------------
(* normalisedNurbsUV on its own *)

\* parameter ranges minU, maxU, minV, maxV in hundredths: the unit range,
\* [0, 2] x [0, 1], [1, 3] x [0, 1] and [0, 1] x [-1, 1]
SurfaceRanges ==
    {<<0, 100, 0, 100>>, <<0, 200, 0, 100>>, <<100, 300, 0, 100>>,
     <<0, 100, -100, 100>>}

RawUVValues == {0, 30, 50, 100, 200}

\* a scene with one patch of the type and the range
RangedScene(typ, range) ==
    CreateNode(CreateNode(EmptyScene, "transform", Nobody, sPatch, <<>>),
               typ, 1, sPatch \o sShape,
               [minValueU |-> range[1], maxValueU |-> range[2],
                minValueV |-> range[3], maxValueV |-> range[4]])

NormaliseCalls ==
    {[fn |-> "normalisedNurbsUV", typ |-> typ, range |-> range, uv |-> <<u, v>>,
      warningOnly |-> w] :
        typ \in PatchTypes, range \in SurfaceRanges, u \in RawUVValues,
        v \in RawUVValues, w \in BOOLEAN}

NormaliseInit ==
    /\ callIn \in NormaliseCalls
    /\ callOut = NotCalled
    /\ panel = <<>>
    /\ settings = <<>>
    /\ DockIdle

\* callOut = normalisedNurbsUV(patch, uv, warningOnly=warningOnly)
DoNormalisedNurbsUV ==
    /\ callIn.fn = "normalisedNurbsUV"
    /\ callOut = NotCalled
    /\ callOut' = normalisedNurbsUV(RangedScene(callIn.typ, callIn.range), 2,
                                    callIn.uv, callIn.warningOnly)
    /\ UNCHANGED <<callIn, panelVars, typeVars, sceneVars, undoVars>>

NormaliseNext ==
    \/ DoNormalisedNurbsUV

NormaliseSpecInit == NormaliseInit /\ TypeIdle /\ SceneIdle /\ UndoIdle

SpecNormalise == NormaliseSpecInit /\ [][NormaliseNext]_vars

Normalised == callIn.fn = "normalisedNurbsUV" /\ callOut # NotCalled

-----------------------------------------------------------------------------
(* FollicleJoint.duplicate *)

\* _driverRatioNodes for one axis: the mult node between the offset of the
\* control node and the add node that feeds the follicle parameter
driverRatioNode(sc, agg, axis) ==
    LET pa == IF axis = 1 THEN "pu" ELSE "pv"
        oa == IF axis = 1 THEN "ou" ELSE "ov"
        Input(n, a, typ) ==
            IF n # Nobody /\ HasConn(sc, n, a)
                         /\ TypeOf(sc, SourceOf(sc, n, a).sn) = typ
            THEN SourceOf(sc, n, a).sn ELSE Nobody
        offsetDriver ==
            Input(Input(agg.fol, pa, "addDoubleLinear"), "i2", "multDoubleLinear")
    IN  IF offsetDriver # Nobody /\ HasConn(sc, offsetDriver, "i1")
           /\ SourceOf(sc, offsetDriver, "i1").sn = controlObj(agg)
           /\ SourceOf(sc, offsetDriver, "i1").sa = oa
        THEN offsetDriver ELSE Nobody

\* the uvDriverRatio property: the i2 of each mult node, 0 standing for the
\* None of an axis without one and <<0, 0>> for the None of a unit without
\* any; reading controlObj.ou of a control node without offsets raises
uvDriverRatio(sc, agg) ==
    LET node(axis) == driverRatioNode(sc, agg, axis)
        val(axis) == IF node(axis) = Nobody THEN 0 ELSE Get(sc, node(axis), "i2")
    IN  IF controlObj(agg) = Nobody
        THEN [raised |-> "none", ratio |-> <<0, 0>>]
        ELSE IF ~uvDriverAttrs(sc, agg)
        THEN [raised |-> "AttributeError", ratio |-> <<0, 0>>]
        ELSE [raised |-> "none", ratio |-> <<val(1), val(2)>>]

\* duplicate(newPatch=None, name, freezeOffsets, selectNew=False, **kw): the
\* scene, the new unit and what was raised.  uvDriverRatio is passed to new
\* by keyword next to **kw, so a uvDriverRatio in kw is a TypeError of the
\* call
duplicate(sc, agg, name, freezeOffsets, kw) ==
    LET uvObj == IF freezeOffsets THEN agg.fol ELSE controlObj(agg)
        attrs == uvDriverAttrs(sc, agg)
        folType == IF "folType" \notin kw.has THEN agg.type.typeString
                   ELSE kw.folType
        jntRadius ==
            IF "jntRadius" \in kw.has THEN kw.jntRadius
            ELSE IF hasJoint(agg.type.typeString)
            THEN Get(sc, agg.jnt, "radius")
            ELSE DefaultRadius
        selfRatio == uvDriverRatio(sc, agg)
        Fails(e) == [sc |-> sc, agg |-> NewAggregate, raised |-> e]
        Offset(r) ==
            IF r.raised = "none" /\ attrs /\ controlObj(r.agg) # Nobody
               /\ ~freezeOffsets
            THEN [r EXCEPT !.sc =
                    SetVal(SetVal(@, controlObj(r.agg), "ou",
                                  Get(sc, uvObj, "ou")),
                           controlObj(r.agg), "ov", Get(sc, uvObj, "ov"))]
            ELSE r
    IN  IF ~HasAttr(sc, uvObj, "pu") \/ ~HasAttr(sc, uvObj, "pv")
        THEN Fails("AttributeError")
        ELSE IF selfRatio.raised # "none" THEN Fails(selfRatio.raised)
        ELSE IF "uvDriverRatio" \in kw.has THEN Fails("TypeError")
        ELSE Offset(new(sc, patchOf(sc, agg),
                        IF name = NoneName THEN selfName(sc, agg) ELSE name,
                        <<Get(sc, uvObj, "pu"), Get(sc, uvObj, "pv")>>,
                        folType, jntRadius, attrs, selfRatio.ratio, FALSE))

\* a joint radius the user sets, and one passed to duplicate: 0.5, 0.3
Radii == [user |-> 50, passed |-> 30]

\* the keyword arguments of duplicate that new takes: has names those that
\* are passed
DuplicateKws ==
    {[has |-> h, folType |-> t, jntRadius |-> Radii.passed,
      uvDriverRatio |-> <<50, 50>>] :
        h \in SUBSET {"folType", "jntRadius", "uvDriverRatio"},
        t \in {T_F, J_F}}

\* the user sets the radius of the joint of a unit
DoSetRadius ==
    /\ last.op \in {"new", "edit"}
    /\ \E i \in 1..Len(made) :
          /\ made[i].agg.jnt # Nobody
          /\ Get(scene, made[i].agg.jnt, "radius") # Radii.user
          /\ scene' = SetVal(scene, made[i].agg.jnt, "radius", Radii.user)
    /\ last' = Edited
    /\ UNCHANGED <<made, typeVars, panelVars, callVars, undoVars>>

\* unit.duplicate(name=name, freezeOffsets=freezeOffsets, **kw)
DoDuplicate ==
    /\ last.op \in {"new", "edit"}
    /\ \E i \in 1..Len(made), name \in {NoneName}, freezeOffsets \in BOOLEAN,
          kw \in DuplicateKws :
          \E r \in {duplicate(scene, made[i].agg, name, freezeOffsets, kw)} :
              /\ scene' = r.sc
              /\ last' = [NoLast EXCEPT
                            !.op = "duplicate", !.result = r.raised,
                            !.agg = made[i].agg, !.other = r.agg,
                            !.pre = scene,
                            !.args = [freezeOffsets |-> freezeOffsets,
                                      kw |-> kw]]
    /\ UNCHANGED <<made, typeVars, panelVars, callVars, undoVars>>

DuplicateNext ==
    \/ DoNewForFreeze
    \/ DoSetOffsetBefore
    \/ DoSetRadius
    \/ DoDuplicate

SpecDuplicate == SceneSpecInit /\ [][DuplicateNext]_vars

Duplicated == last.op = "duplicate"

\* what the duplicate has to carry: the type, radius and ratio of the source
\* unless passed
CarriedType ==
    IF "folType" \notin last.args.kw.has THEN last.agg.type.typeString
    ELSE last.args.kw.folType

CarriedRadius ==
    IF "jntRadius" \notin last.args.kw.has
    THEN Get(last.pre, last.agg.jnt, "radius")
    ELSE last.args.kw.jntRadius

\* the ratio an offset of the unit reaches the follicle with
EffectiveRatio(sc, agg, axis) ==
    IF driverRatioNode(sc, agg, axis) = Nobody THEN 100
    ELSE Get(sc, driverRatioNode(sc, agg, axis), "i2")

CarriedRatio(axis) ==
    IF "uvDriverRatio" \notin last.args.kw.has
    THEN EffectiveRatio(last.pre, last.agg, axis)
    ELSE IF last.args.kw.uvDriverRatio[axis] = 0 THEN 100
    ELSE last.args.kw.uvDriverRatio[axis]

DuplicateCarries ==
    /\ last.result = "none"
    /\ last.other.fol # Nobody
    /\ last.other.fol \notin DOMAIN last.pre.nodes
    /\ patchOf(scene, last.other) = patchOf(last.pre, last.agg)
    /\ last.other.type.typeString = CarriedType
    /\ (last.other.jnt # Nobody /\ last.agg.jnt # Nobody)
          => Get(scene, last.other.jnt, "radius") = CarriedRadius
    /\ uvDriverAttrs(last.pre, last.agg) =>
          \A axis \in 1..2 :
              EffectiveRatio(scene, last.other, axis) = CarriedRatio(axis)

\* the values of the duplicate: those of the source control node, or with
\* freezeOffsets the live parameter of the source follicle and no offset
DuplicateValues ==
    \A a \in {"u", "v"} :
        LET dup == controlObj(last.other)
            src == controlObj(last.agg)
        IN  IF last.args.freezeOffsets
            THEN /\ Get(scene, dup, "p" \o a) = Get(last.pre, last.agg.fol, "p" \o a)
                 /\ HasAttr(scene, dup, "o" \o a) => Get(scene, dup, "o" \o a) = 0
            ELSE /\ Get(scene, dup, "p" \o a) = Get(last.pre, src, "p" \o a)
                 /\ HasAttr(last.pre, src, "o" \o a) =>
                      Get(scene, dup, "o" \o a) = Get(last.pre, src, "o" \o a)

\* the follicle of the duplicate gets the parameter pair the source's has
SameResolved ==
    \A a \in {"pu", "pv"} :
        Get(scene, last.other.fol, a) = Get(last.pre, last.agg.fol, a)

\* C20: duplicate() on the same patch makes a new unit with the type, the
\* joint radius and the driver ratio of the source unless they are passed,
\* whose follicle gets the parameter pair of the source's: without
\* freezeOffsets its base and offset values are those of the source control
\* node, with freezeOffsets its offsets are 0 and its base is the live
\* parameter of the source follicle
C20_Duplicate ==
    Duplicated =>
        /\ DuplicateCarries
        /\ DuplicateValues
        /\ ("uvDriverRatio" \notin last.args.kw.has => SameResolved)

-----------------------------------------------------------------------------
(* connectAttrAdd and FollicleJoint.addOffsetDriver *)

sUnderAdd == <<"_", "a", "d", "d", "#">>
sOffsetScale == <<"_", "o", "f", "f", "s", "e", "t", "S", "c", "a", "l", "e">>

\* a connection that replaces what drives the destination instead of adding
\* to it
connectAttrReplacing(sc, sn, sa, dn, da) == ForceConnect(sc, sn, sa, dn, da)

\* connectAttrAdd(sourceAttr, destAttr): with a connection into destAttr an
\* add node takes the old source and the new one and is force-connected to
\* destAttr; else the plain connection
connectAttrAdd(sc, sn, sa, dn, da) ==
    LET firstCon == SourceOf(sc, dn, da)
        offsetAdd == Len(sc.nodes) + 1
        addName == NameOf(sc, dn) \o <<"_", da>> \o sUnderAdd
    IN  IF HasConn(sc, dn, da)
        THEN ForceConnect(
               Connect(
                 Connect(CreateNode(sc, "addDoubleLinear", Nobody, addName,
                                    [i1 |-> 0, i2 |-> 0]),
                         firstCon.sn, firstCon.sa, offsetAdd, "i1"),
                 sn, sa, offsetAdd, "i2"),
               offsetAdd, "o", dn, da)
        ELSE Connect(sc, sn, sa, dn, da)

\* the short names offsetScale<U|V> takes: osu, osu1, osu2, ...
OsName(uvLow, num) ==
    IF num = 0 THEN "os" \o uvLow
    ELSE "os" \o uvLow \o <<"1", "2", "3", "4", "5", "6", "7", "8", "9">>[num]

\* the while loop over attributeQuery: the first name not on the node
RECURSIVE FreeOsName(_, _, _, _)
FreeOsName(sc, n, uvLow, num) ==
    IF HasAttr(sc, n, OsName(uvLow, num))
    THEN FreeOsName(sc, n, uvLow, num + 1)
    ELSE OsName(uvLow, num)

\* one turn of the loop of addOffsetDriver over U and V: the scene, the new
\* mult node and what is raised.  pm.connectAttr and pm.Attribute raise for
\* an attribute the node does not have.
addOffsetDriverAxis(sc, agg, driverObj, ratio, attrs, uvLow) ==
    LET oa == "o" \o uvLow
        nameBase == RPartitionHead(NameOf(sc, agg.fol), <<"_">>)
        ofName == nameBase \o sOffsetScale
                    \o <<IF uvLow = "u" THEN "U" ELSE "V", "_", "#">>
        offsetRto == Len(sc.nodes) + 1
        driverNode == controlObj(driverObj)
        ctrl == controlObj(agg)
        made1 == CreateNode(sc, "multDoubleLinear", Nobody, ofName,
                            [i1 |-> 0, i2 |-> 0])
        Out(s, e) == [sc |-> s, mult |-> offsetRto, raised |-> e]
        \* ratioAttr.set(ratio), on the new attribute or on i2
        Rated(s) ==
            IF attrs
            THEN Out(SetVal(
                       Connect(AddAttr(s, ctrl, FreeOsName(s, ctrl, uvLow, 0)),
                               ctrl, FreeOsName(s, ctrl, uvLow, 0),
                               offsetRto, "i2"),
                       ctrl, FreeOsName(s, ctrl, uvLow, 0), ratio),
                     "none")
            ELSE Out(SetVal(s, offsetRto, "i2", ratio), "none")
        Driven(s) ==
            IF ctrl = Nobody \/ ~HasAttr(s, ctrl, oa)
            THEN Out(s, "AttributeError")
            ELSE IF <<ctrl, oa>> \in s.locked THEN Out(s, "RuntimeError")
            ELSE Rated(connectAttrAdd(s, offsetRto, "o", ctrl, oa))
    IN  IF driverNode = Nobody \/ ~HasAttr(sc, driverNode, oa)
        THEN Out(made1, "RuntimeError")
        ELSE Driven(Connect(made1, driverNode, oa, offsetRto, "i1"))

\* pm.select(nodes, r=1)
Select(sc, nodes) == [sc EXCEPT !.sel = nodes]

\* addOffsetDriver(driverObj, ratio, attrs, selectDriver) with a driverObj:
\* the scene, what is raised and the pair returned
addOffsetDriver(sc, agg, driverObj, ratio, attrs, selectDriver) ==
    LET Selected(s, mults) ==
            IF ~selectDriver THEN s
            ELSE IF attrs THEN Select(s, <<controlObj(agg)>>)
            ELSE Select(s, mults)
        Second(u, v) ==
            IF v.raised # "none"
            THEN [sc |-> v.sc, raised |-> v.raised, mults |-> <<>>,
                  ctrl |-> Nobody]
            ELSE [sc |-> Selected(v.sc, <<u.mult, v.mult>>), raised |-> "none",
                  mults |-> <<u.mult, v.mult>>, ctrl |-> controlObj(agg)]
        First1(u) ==
            IF u.raised # "none"
            THEN [sc |-> u.sc, raised |-> u.raised, mults |-> <<>>,
                  ctrl |-> Nobody]
            ELSE Second(u, addOffsetDriverAxis(u.sc, agg, driverObj, ratio,
                                               attrs, "v"))
    IN  First1(addOffsetDriverAxis(sc, agg, driverObj, ratio, attrs, "u"))

\* the units and the links of the model
MaxLinkUnits == 3
MaxLinks == 3

\* link ratios: the default 0.5, and 1.0
LinkRatios == {50, 100}

DoNewForLink ==
    NewUnit(MaxLinkUnits, {<<>>}, {T_FJ}, {<<30, 70>>}, BOOLEAN,
            {DefaultRatio})

\* offset pairs the user sets: [1.0, -0.5] and [-0.5, 1.0]
OffsetPairs == {<<100, -50>>, <<-50, 100>>}

\* the user sets both offsets of a control node that has none yet
DoSetOffsets ==
    /\ last.op \in {"new", "edit"}
    /\ \E i \in 1..Len(made), v \in OffsetPairs :
          /\ HasAttr(scene, ControlOf(i), "ou")
          /\ Get(scene, ControlOf(i), "ou") = 0
          /\ Get(scene, ControlOf(i), "ov") = 0
          /\ scene' = SetVal(SetVal(scene, ControlOf(i), "ou", v[1]),
                             ControlOf(i), "ov", v[2])
    /\ last' = Edited
    /\ UNCHANGED <<made, typeVars, panelVars, callVars, undoVars>>

\* follower.addOffsetDriver(driverObj=driver, ratio=ratio, attrs=attrs), as
\* long as fewer than maxLinks links were made: the links that were made are
\* kept in last.args.  A driver is a unit made after the follower, so that no
\* unit drives itself through the others.  A call that raised leaves a mult
\* node behind; the model ends there, as the nodes left behind would grow
\* without bound.
AddOffsetDriver(maxLinks, ratios, attrsSet) ==
    /\ last.op \in {"new", "edit", "addOffsetDriver"}
    /\ last.result = "none"
    /\ Len(last.args) < maxLinks
    /\ \E i \in 1..Len(made), j \in 1..Len(made), ratio \in ratios,
          attrs \in attrsSet :
          /\ i < j
          /\ \E r \in {addOffsetDriver(scene, made[i].agg, made[j].agg, ratio,
                                      attrs, TRUE)} :
                /\ scene' = r.sc
                /\ last' = [NoLast EXCEPT
                              !.op = "addOffsetDriver", !.result = r.raised,
                              !.agg = made[i].agg, !.other = made[j].agg,
                              !.pre = scene,
                              !.args =
                                 IF r.raised # "none" THEN last.args
                                 ELSE Append(last.args,
                                        [follower |-> made[i].agg,
                                         driver |-> made[j].agg,
                                         ratio |-> ratio, attrs |-> attrs,
                                         mults |-> r.mults])]
    /\ UNCHANGED <<made, typeVars, panelVars, callVars, undoVars>>

DoAddOffsetDriver == AddOffsetDriver(MaxLinks, LinkRatios, BOOLEAN)

LinkNext ==
    \/ DoNewForLink
    \/ DoSetOffsets
    \/ DoAddOffsetDriver

SpecLink == SceneSpecInit /\ [][LinkNext]_vars

\* the links made onto the control node n
LinksOnto(n) ==
    SelectSeq(last.args, LAMBDA l : controlObj(l.follower) = n)

\* the sum over links of link ratio x driver offset, for the axis of oa
RECURSIVE LinkSum(_, _, _)
LinkSum(sc, links, oa) ==
    IF links = <<>> THEN 0
    ELSE Mul(Head(links).ratio, Get(sc, controlObj(Head(links).driver), oa))
           + LinkSum(sc, Tail(links), oa)

Incoming(sc, n, a) == {c \in sc.conns : c.dn = n /\ c.da = a}

Linked == last.op = "addOffsetDriver"

\* C22: after k >= 1 offset-driver links onto the same follower axis the
\* follower's offset attribute has exactly one incoming connection, and its
\* value is the sum over the k links of link ratio x driver offset
C22_LinksAdd ==
    Linked =>
        \A i \in 1..Len(made), oa \in {"ou", "ov"} :
            LinksOnto(ControlOf(i)) # <<>> =>
                /\ Cardinality(Incoming(scene, ControlOf(i), oa)) = 1
                /\ Get(scene, ControlOf(i), oa)
                     = LinkSum(scene, LinksOnto(ControlOf(i)), oa)

\* three links onto one follower with a sum that is not 0 and in which the
\* first link counts
C22_Witness ==
    /\ Linked
    /\ last.result = "none"
    /\ \E i \in 1..Len(made) :
          /\ Len(LinksOnto(ControlOf(i))) = 3
          /\ Get(scene, ControlOf(i), "ou") # 0
          /\ LinkSum(scene, Tail(LinksOnto(ControlOf(i))), "ou")
               # Get(scene, ControlOf(i), "ou")

-----------------------------------------------------------------------------
(* UI.getSelectedFols and the panel actions that use it *)

\* "Please select %s follicle joint%s first!" % (num, plural)
PleaseSelect(requireNum) ==
    "Please select "
      \o (IF requireNum > 1 THEN <<"1", "2", "3">>[requireNum] ELSE "a")
      \o " follicle joint" \o (IF requireNum > 1 THEN "s" ELSE "")
      \o " first!"

\* the messages of the StandardErrors of getFollicleJoints
EngineMessage(raised) ==
    IF raised = "StandardError: No objects found"
    THEN "No objects found to identify follicle joints from!"
    ELSE IF raised = "StandardError: No follicle setups"
    THEN "No follicle setups were found!"
    ELSE raised

\* getSelectedFols(requireNum): the units of the selection, or what is
\* raised with its message.  getFollicleJoints raises by itself when it has
\* no object or finds no unit, strict or not.
getSelectedFols(sc, requireNum) ==
    LET r == getFollicleJoints(sc, <<>>, TRUE, FALSE)
    IN  IF r.raised # "none"
        THEN [raised |-> r.raised, msg |-> EngineMessage(r.raised),
              fols |-> <<>>]
        ELSE IF r.fols = <<>> \/ Len(r.fols) < requireNum
        THEN [raised |-> "StandardError", msg |-> PleaseSelect(requireNum),
              fols |-> <<>>]
        ELSE [raised |-> "none", msg |-> "", fols |-> r.fols]

\* the loop of multiRename over the units; a rename that raises ends it
RECURSIVE RenameEach(_, _, _)
RenameEach(sc, fols, name) ==
    IF fols = <<>> THEN [sc |-> sc, raised |-> "none"]
    ELSE LET Next1(r) ==
                 IF r.raised # "none" THEN [sc |-> r.sc, raised |-> r.raised]
                 ELSE RenameEach(r.sc, Tail(fols), name)
         IN  Next1(rename(sc, Head(fols), name, FALSE, FALSE, renameFormats))

\* multiRename(objs=folObjs, name, skipSelect=False): the units are renamed
\* one by one and their top nodes selected
multiRename(sc, fols, name) ==
    LET Done(r) ==
            IF r.raised # "none" THEN r
            ELSE [sc |-> Select(r.sc, [i \in 1..Len(fols) |-> topObj(fols[i])]),
                  raised |-> "none"]
    IN  Done(RenameEach(sc, fols, name))

\* the loop of addAsOffsetDriver over the driven units
RECURSIVE DriveEach(_, _, _, _, _)
DriveEach(sc, fols, driverObj, ratio, out) ==
    IF fols = <<>> THEN [sc |-> sc, raised |-> "none", out |-> out]
    ELSE LET Next1(r) ==
                 IF r.raised # "none"
                 THEN [sc |-> r.sc, raised |-> r.raised, out |-> out]
                 ELSE DriveEach(r.sc, Tail(fols), driverObj, ratio,
                                Append(out, r.ctrl))
         IN  Next1(addOffsetDriver(sc, Head(fols), driverObj, ratio, TRUE,
                                   FALSE))

\* addAsOffsetDriver(objs=folObjs, ratio, selectDriver=True): the first unit
\* drives the others
addAsOffsetDriver(sc, fols, ratio) ==
    LET Done(r) ==
            IF r.raised # "none" THEN [sc |-> r.sc, raised |-> r.raised]
            ELSE [sc |-> Select(r.sc, r.out), raised |-> "none"]
    IN  IF Len(fols) < 2 THEN [sc |-> sc, raised |-> "StandardError"]
        ELSE Done(DriveEach(sc, Tail(fols), Head(fols), ratio, <<>>))

\* the attribute of the aggregate that subNodeType names
SubNode(agg, subNodeType) ==
    CASE subNodeType = "topObj" -> topObj(agg)
      [] subNodeType = "controlObj" -> controlObj(agg)
      [] subNodeType = "jnt" -> agg.jnt
      [] subNodeType = "fol" -> agg.fol

\* getSubNodes(subNodeType, objs=folObjs, skipSelect=False): the nodes are
\* selected, control nodes in the order joint, follicle, transform
getSubNodes(sc, fols, subNodeType) ==
    LET selObjs ==
            SelectSeq([i \in 1..Len(fols) |-> SubNode(fols[i], subNodeType)],
                      LAMBDA n : n # Nobody)
        OfType(typ) == SelectSeq(selObjs, LAMBDA n : TypeOf(sc, n) = typ)
    IN  [sc |-> Select(sc,
                  IF subNodeType = "controlObj"
                  THEN OfType("joint") \o OfType("follicle") \o OfType("transform")
                  ELSE selObjs),
         raised |-> "none"]

\* the texts of the name field: empty, and "b#"
NameTexts == {<<>>, <<"b", "#">>}

\* the nodes the user selects at once
MaxSelected == 2

Selections(sc) ==
    {<<>>} \cup {s \in ObjLists(sc, MaxSelected) :
                   \A i, j \in 1..Len(s) : i # j => s[i] # s[j]}

DoNewForPanel ==
    NewUnit(MaxUnits, {<<>>}, {T_FJ, J_F}, {<<30, 70>>}, {TRUE}, {DefaultRatio})

\* the user selects nodes in the scene
DoSelectNodes ==
    /\ last.op \in {"none", "new", "createNode"}
    /\ \E s \in Selections(scene) : scene' = Select(scene, s)
    /\ last' = [NoLast EXCEPT !.op = "select"]
    /\ UNCHANGED <<made, typeVars, panelVars, callVars, undoVars>>

\* what a panel action leaves: what it raised with its message, the scene it
\* started from and the number of units it asks for
PanelCalled(op, requireNum, raised, msg) ==
    [NoLast EXCEPT !.op = op, !.result = raised, !.pre = scene,
                   !.args = [requireNum |-> requireNum, msg |-> msg]]

\* rename_call: getSelectedFols(), newName(), multiRename
DoRenameCall ==
    /\ last.op \in {"none", "new", "createNode", "select"}
    /\ \E text \in NameTexts :
          \E g \in {getSelectedFols(scene, 1)} :
              IF g.raised # "none"
              THEN /\ scene' = scene
                   /\ last' = PanelCalled("rename_call", 1, g.raised, g.msg)
              ELSE IF text = <<>>
              THEN /\ scene' = scene
                   /\ last' = PanelCalled("rename_call", 1, "StandardError",
                                          "No Name was given!")
              ELSE \E r \in {multiRename(scene, g.fols, text)} :
                      /\ scene' = r.sc
                      /\ last' = PanelCalled("rename_call", 1, r.raised, "")
    /\ UNCHANGED <<made, typeVars, panelVars, callVars, undoVars>>

\* offsetDriver_call: getSelectedFols(2), addAsOffsetDriver
DoOffsetDriverCall ==
    /\ last.op \in {"none", "new", "createNode", "select"}
    /\ \E ratio \in LinkRatios :
          \E g \in {getSelectedFols(scene, 2)} :
              IF g.raised # "none"
              THEN /\ scene' = scene
                   /\ last' = PanelCalled("offsetDriver_call", 2, g.raised,
                                          g.msg)
              ELSE \E r \in {addAsOffsetDriver(scene, g.fols, ratio)} :
                      /\ scene' = r.sc
                      /\ last' = PanelCalled("offsetDriver_call", 2, r.raised,
                                             "")
    /\ UNCHANGED <<made, typeVars, panelVars, callVars, undoVars>>

\* select_call(subNodeType): getSelectedFols(), getSubNodes
DoSelectCall ==
    /\ last.op \in {"none", "new", "createNode", "select"}
    /\ \E subNodeType \in {"controlObj", "jnt", "topObj", "fol"} :
          \E g \in {getSelectedFols(scene, 1)} :
              IF g.raised # "none"
              THEN /\ scene' = scene
                   /\ last' = PanelCalled("select_call", 1, g.raised, g.msg)
              ELSE \E r \in {getSubNodes(scene, g.fols, subNodeType)} :
                      /\ scene' = r.sc
                      /\ last' = PanelCalled("select_call", 1, r.raised, "")
    /\ UNCHANGED <<made, typeVars, panelVars, callVars, undoVars>>

PanelCallsNext ==
    \/ DoNewForPanel
    \/ DoCreateNode
    \/ DoSelectNodes
    \/ DoRenameCall
    \/ DoOffsetDriverCall
    \/ DoSelectCall

SpecPanelCalls == SceneSpecInit /\ [][PanelCallsNext]_vars

PanelCallOps == {"rename_call", "offsetDriver_call", "select_call"}

\* the valid units in the selection the action started from
ValidSelected ==
    LET r == getFollicleJoints(last.pre, <<>>, TRUE, FALSE)
    IN  IF r.raised = "none" THEN Len(r.fols) ELSE 0

\* C21: a panel action that asks for k selected units (1 or 2) and finds
\* fewer valid units in the selection, an empty selection and one without a
\* valid unit included, fails with "Please select a follicle joint first!"
\* (k = 1) or "Please select 2 follicle joints first!" (k = 2) and changes
\* nothing in the scene
C21_SelectFirst ==
    (last.op \in PanelCallOps /\ ValidSelected < last.args.requireNum) =>
        /\ last.result = "StandardError"
        /\ last.args.msg = IF last.args.requireNum = 1
                           THEN "Please select a follicle joint first!"
                           ELSE "Please select 2 follicle joints first!"
        /\ scene = last.pre

-----------------------------------------------------------------------------
(* Discovery over a list of candidates: C23 *)

\* what discovery gives for the candidate alone
Alone(obj) == getFollicleJoint(scene, NewAggregate, <<obj>>, FALSE)

ResolvesAlone(obj) == Alone(obj).result = "True"

\* the first candidate of the list that resolves to a valid unit by itself
FirstResolving(objs) ==
    CHOOSE i \in 1..Len(objs) :
        /\ ResolvesAlone(objs[i])
        /\ \A j \in 1..(i - 1) : ~ResolvesAlone(objs[j])

\* C23: discovery over a list of candidates gives the unit of the first
\* candidate in input order that resolves to a valid unit; a candidate whose
\* follicle drives neither its parent nor the joint is passed over and the
\* candidates after it are tried
C23_FirstValidCandidate ==
    (last.op = "getFollicleJoint"
       /\ \E i \in 1..Len(last.objs) : ResolvesAlone(last.objs[i])) =>
        /\ last.result = "True"
        /\ last.agg = Alone(last.objs[FirstResolving(last.objs)]).agg

-----------------------------------------------------------------------------
(* The name of the follicle shape after rename: C24 *)

\* the name the shape of the unit should have: its parent's name and "Shape"
ShapeNameWanted(sc, agg) == NameOf(sc, ParentOf(sc, agg.fol)) \o sShape

\* the shape has the wanted name, or the wanted name belongs to another node
\* and the shape has it with a number appended
ShapeNamedAfterParent(sc, agg) ==
    \/ NameOf(sc, agg.fol) = ShapeNameWanted(sc, agg)
    \/ /\ \E n \in Alive(sc) \ {agg.fol} :
             NameOf(sc, n) = ShapeNameWanted(sc, agg)
       /\ \E k \in 1..9 :
             NameOf(sc, agg.fol) = ShapeNameWanted(sc, agg) \o NumStr(k)

-----------------------------------------------------------------------------
(* rename without applying: C29 *)

\* C29: rename(dontApply=True) changes the name of no node of the scene,
\* whatever the name asked for and whether the placeholder rename is
\* skipped or not
C29_DontApplyKeepsNames ==
    (last.op = "rename" /\ last.args.dontApply) =>
        \A n \in Alive(last.pre) : NameOf(scene, n) = NameOf(last.pre, n)

-----------------------------------------------------------------------------
(* FollicleJoint._linkRatioAttrs under copyValuesToMirror: C25 *)

\* the attributes startAttrs still holds for the loop, as far as the model
\* counts them
MaxStartAttrs == 4

\* the links of the scenes in which the ratios are copied
MaxRatioLinks == 2

\* offsetInp[0]: the node that feeds the offset attribute of the control node
OffsetInput(sc, ctrl, oa) ==
    IF HasConn(sc, ctrl, oa) THEN SourceOf(sc, ctrl, oa).sn ELSE Nobody

\* the state of the property for one unit as the loop over the axes starts:
\* reading controlObj.ou of a node without offsets raises.  The property only
\* reads the scene, so the values the call copies besides the link ratios are
\* those of the scene the call started in: copied is the scene with them set.
\* odd is the parity of the passes taken.
StartLinkRatio(sc, who, pc, selfNodes, copied) ==
    IF ~uvDriverAttrs(sc, who)
    THEN [pc |-> "done", unit |-> who, axis |-> 1, left |-> 0, odd |-> FALSE,
          nodes |-> <<<<>>, <<>>>>, found |-> FALSE, selfNodes |-> selfNodes,
          copied |-> copied, raised |-> "AttributeError"]
    ELSE [pc |-> pc, unit |-> who, axis |-> 1, left |-> 1, odd |-> FALSE,
          nodes |-> <<<<>>, <<>>>>, found |-> FALSE, selfNodes |-> selfNodes,
          copied |-> copied, raised |-> "none"]

\* one pass of "for attr in startAttrs": the pass looks at the inputs of
\* uvDrvAttrs[i], the offset attribute itself, whatever attr is.  Behind a
\* mult node the ratio attribute is noted; behind an add node i1 and i2 of
\* the add node are appended to startAttrs, the list the loop runs over.
\* startAttrs is counted up to MaxStartAttrs only.
LinkRatioPass(sc, st) ==
    LET ctrl == controlObj(st.unit)
        oa == IF st.axis = 1 THEN "ou" ELSE "ov"
        inp == OffsetInput(sc, ctrl, oa)
        Passed == [st EXCEPT !.left = @ - 1, !.odd = ~@]
        Found(attr) ==
            [Passed EXCEPT !.found = TRUE, !.nodes[st.axis] = Append(@, attr)]
    IN  IF inp = Nobody THEN Passed
        ELSE IF TypeOf(sc, inp) = "multDoubleLinear"
        THEN IF ~HasConn(sc, inp, "i2") THEN Found(<<inp, "i2">>)
             ELSE IF SourceOf(sc, inp, "i2").sn = ctrl
             THEN Found(<<ctrl, SourceOf(sc, inp, "i2").sa>>)
             ELSE Passed
        ELSE IF TypeOf(sc, inp) = "addDoubleLinear"
        THEN [st EXCEPT !.odd = ~@,
                        !.left = IF @ + 1 > MaxStartAttrs THEN MaxStartAttrs
                                 ELSE @ + 1]
        ELSE Passed

\* what the property returns: the lists, or None (the empty tuple)
LinkRatioResult(st) == IF st.found THEN st.nodes ELSE <<>>

\* the entries of toFromAttrs for the link ratios
LinkEntries(uvLinkNodes, mirLinkNodes) ==
    LET Pairs(i) ==
            [j \in 1..(IF Len(uvLinkNodes[i]) < Len(mirLinkNodes[i])
                       THEN Len(uvLinkNodes[i]) ELSE Len(mirLinkNodes[i])) |->
                [to |-> mirLinkNodes[i][j], from |-> uvLinkNodes[i][j],
                 uvIndex |-> 2, ranged |-> FALSE, midVal |-> 0,
                 uvRange |-> <<>>]]
    IN  IF uvLinkNodes = <<>> \/ mirLinkNodes = <<>> THEN <<>>
        ELSE Pairs(1) \o Pairs(2)

DoNewForRatios ==
    NewUnit(MaxLinkUnits, MirrorNames, {T_FJ}, {<<30, 70>>}, {TRUE},
            {DefaultRatio})

DoLinkForRatios == AddOffsetDriver(MaxRatioLinks, {50}, BOOLEAN)

CopyingRatios == last.op = "copyValuesToMirror" /\ last.result = "running"

\* unit.copyValuesToMirror(strict=strict, drivenOffsetRatios=True) up to the
\* first pass of self._linkRatioAttrs; a call that raises before it, or that
\* returns for a unit without a side, is over at once
DoStartCopyRatios ==
    /\ last.op \in {"new", "addOffsetDriver"}
    /\ last.result = "none"
    /\ \E i \in 1..Len(made), strict \in BOOLEAN :
          \E r \in {copyValuesToMirror(scene, made[i].agg, TRUE, TRUE, "u", 50,
                                      DefaultRange, strict, TRUE)} :
            \E st \in {StartLinkRatio(scene, made[i].agg, "self", <<>>,
                                       r.sc)} :
              last' = [NoLast EXCEPT
                         !.op = "copyValuesToMirror",
                         !.result = IF r.raised # "none" THEN r.raised
                                    ELSE IF r.mirror = NewAggregate THEN "none"
                                    ELSE IF st.raised # "none" THEN st.raised
                                    ELSE "running",
                         !.agg = made[i].agg, !.other = r.mirror,
                         !.strict = strict, !.pre = scene, !.args = st]
    /\ UNCHANGED <<scene, made, typeVars, panelVars, callVars, undoVars>>

\* one pass of the loop over startAttrs
DoLinkRatioPass ==
    /\ CopyingRatios
    /\ last.args.left > 0
    /\ last' = [last EXCEPT !.args = LinkRatioPass(scene, last.args)]
    /\ UNCHANGED <<scene, made, typeVars, panelVars, callVars, undoVars>>

\* startAttrs is exhausted for u: the loop over the axes goes on to v
DoLinkRatioNextAxis ==
    /\ CopyingRatios
    /\ last.args.left = 0
    /\ last.args.axis = 1
    /\ last' = [last EXCEPT !.args.axis = 2, !.args.left = 1]
    /\ UNCHANGED <<scene, made, typeVars, panelVars, callVars, undoVars>>

\* self._linkRatioAttrs returns: mirrorObj._linkRatioAttrs starts
DoLinkRatioReturn ==
    /\ CopyingRatios
    /\ last.args.left = 0
    /\ last.args.axis = 2
    /\ last.args.pc = "self"
    /\ \E st \in {StartLinkRatio(scene, last.other, "mirror",
                                 LinkRatioResult(last.args),
                                 last.args.copied)} :
          last' = [last EXCEPT !.args = st,
                               !.result = IF st.raised # "none" THEN st.raised
                                          ELSE "running"]
    /\ UNCHANGED <<scene, made, typeVars, panelVars, callVars, undoVars>>

\* mirrorObj._linkRatioAttrs returns: the values are set and the call returns
DoCopyRatiosFinish ==
    /\ CopyingRatios
    /\ last.args.left = 0
    /\ last.args.axis = 2
    /\ last.args.pc = "mirror"
    /\ scene' = SetMirrorAttrs(last.args.copied,
                               LinkEntries(last.args.selfNodes,
                                           LinkRatioResult(last.args)), 0)
    /\ last' = [last EXCEPT !.result = "none", !.args.pc = "done"]
    /\ UNCHANGED <<made, typeVars, panelVars, callVars, undoVars>>

CopyRatiosNext ==
    \/ DoNewForRatios
    \/ DoLinkForRatios
    \/ DoStartCopyRatios
    \/ DoLinkRatioPass
    \/ DoLinkRatioNextAxis
    \/ DoLinkRatioReturn
    \/ DoCopyRatiosFinish

\* the steps of a call that has started
CopyRatiosRun ==
    \/ DoLinkRatioPass
    \/ DoLinkRatioNextAxis
    \/ DoLinkRatioReturn
    \/ DoCopyRatiosFinish

\* a call that has started goes on: the host runs it to its end
SpecCopyRatios ==
    SceneSpecInit /\ [][CopyRatiosNext]_vars /\ WF_vars(CopyRatiosRun)

\* C25: a copyValuesToMirror call with drivenOffsetRatios, which
\* createMirrorObject always asks for, comes to an end for every unit, a
\* follower whose offset attribute is fed by a sum node because two links
\* converge on it included
C25_CopyRatiosTerminates ==
    (last.op = "copyValuesToMirror")
        ~> (last.op = "copyValuesToMirror" /\ last.result # "running")

-----------------------------------------------------------------------------
(* FollicleJoint.getMirrorObject(justName=True): C28 *)

\* the units of the scenes in which mirror names are computed
MaxSidedUnits == 2

\* "L_a#", "R_a#", "M_a#", and names that hold a side prefix further on:
\* "L_aR_#", "R_aL_#", "L_aL_#"
SidedNames ==
    MirrorNames \cup
    {<<"L", "_", "a", "R", "_", "#">>, <<"R", "_", "a", "L", "_", "#">>,
     <<"L", "_", "a", "L", "_", "#">>}

\* nameObj.name().replace(sidePrefix[lrIndex], sidePrefix[lrIndexMirror])
mirrorFolGuess(nameStr, lrIndex) ==
    Replace(nameStr, sidePrefix[lrIndex], sidePrefix[3 - lrIndex])

\* getMirrorObject(strict, justName=True): what is raised and the name
\* returned (None, the empty name, for a unit that is neither left nor right)
getMirrorName(sc, agg, strict) ==
    IF ~isSide(sc, agg)
    THEN [raised |-> IF strict THEN "StandardError" ELSE "none",
          name |-> <<>>]
    ELSE [raised |-> "none",
          name |-> mirrorFolGuess(NameOf(sc, nameObj(agg)),
                                  IF side(sc, agg) = sideChars[1] THEN 1
                                  ELSE 2)]

DoNewSided ==
    NewUnit(MaxSidedUnits, SidedNames, {T_F, TJ_F}, MirrorUVs, {FALSE},
            {DefaultRatio})

\* unit.getMirrorObject(strict=strict, justName=True)
DoGetMirrorName ==
    /\ last.op \in {"new", "getMirrorName", "getMirrorObject"}
    /\ \E i \in 1..Len(made), strict \in BOOLEAN :
          \E r \in {getMirrorName(scene, made[i].agg, strict)} :
              last' = [NoLast EXCEPT
                         !.op = "getMirrorName", !.result = r.raised,
                         !.agg = made[i].agg, !.strict = strict,
                         !.pre = scene,
                         !.args = [name |-> NameOf(scene, nameObj(made[i].agg)),
                                   guess |-> r.name]]
    /\ UNCHANGED <<scene, made, typeVars, panelVars, callVars, undoVars>>

\* unit.getMirrorObject(strict=strict)
DoGetMirrorObject ==
    /\ last.op \in {"new", "getMirrorName", "getMirrorObject"}
    /\ \E i \in 1..Len(made), strict \in BOOLEAN :
          \E r \in {getMirrorObject(scene, made[i].agg, strict)} :
              last' = [NoLast EXCEPT
                         !.op = "getMirrorObject", !.result = r.raised,
                         !.agg = made[i].agg, !.other = r.agg,
                         !.strict = strict, !.pre = scene,
                         !.args = [returned |-> r.result]]
    /\ UNCHANGED <<scene, made, typeVars, panelVars, callVars, undoVars>>

MirrorNameNext ==
    \/ DoNewSided
    \/ DoGetMirrorName
    \/ DoGetMirrorObject

SpecMirrorName == SceneSpecInit /\ [][MirrorNameNext]_vars

\* the name with its first two characters, a side prefix, exchanged for by
SwapLeading(nameStr, by) == by \o SubSeq(nameStr, 3, Len(nameStr))

\* the name getMirrorObject computes for a unit of the given name
MirrorOfName(nameStr) ==
    IF StartsWith(nameStr, sidePrefix[1]) THEN mirrorFolGuess(nameStr, 1)
    ELSE IF StartsWith(nameStr, sidePrefix[2]) THEN mirrorFolGuess(nameStr, 2)
    ELSE <<>>

\* a mirror name was computed for a left or right unit
MirrorNamed == last.op = "getMirrorName" /\ isSide(scene, last.agg)

\* C28: for a left or right unit the mirror name getMirrorObject computes is
\* the unit's name with only the leading side prefix exchanged for the other
\* one, also when the name holds a side prefix further on, and the mirror
\* name of the mirror name is the unit's name
C28_MirrorName ==
    MirrorNamed =>
        /\ last.args.guess =
             SwapLeading(last.args.name,
                         IF StartsWith(last.args.name, sidePrefix[1])
                         THEN sidePrefix[2] ELSE sidePrefix[1])
        /\ MirrorOfName(last.args.guess) = last.args.name

-----------------------------------------------------------------------------
(* transferToPatch again and again on one aggregate: C26 *)

\* the patches made besides the first one, and the transfers of one aggregate
MaxTargets == 2

MaxTransfers == 3

MaxChainUnits == 1

\* the user makes the patches the unit moves between, before any unit
DoCreateTarget ==
    /\ Built
    /\ made = <<>>
    /\ Cardinality(OtherPatches(scene)) < MaxTargets
    /\ \E kind \in PatchTypes :
          scene' =
             CreateNode(
               CreateNode(scene, "transform", Nobody, sOther \o <<"#">>,
                          [tx |-> 0]),
               kind, Len(scene.nodes) + 1, sOther \o sShape \o <<"#">>,
               IF kind = "mesh" THEN <<>>
               ELSE [minValueU |-> 0, maxValueU |-> 100,
                     minValueV |-> 0, maxValueV |-> 100])
    /\ last' = [NoLast EXCEPT !.op = "createNode"]
    /\ UNCHANGED <<made, typeVars, panelVars, callVars, undoVars>>

DoNewForChain ==
    NewUnit(MaxChainUnits, {<<>>}, {T_F, T_FJ}, {<<30, 70>>}, {FALSE},
            {DefaultRatio})

\* every patch of the scene
AllPatches(sc) == {n \in Alive(sc) : TypeOf(sc, n) \in PatchTypes}

\* one transferToPatch(patch, newUV, closestPt, useSmoothedMesh) of an
\* aggregate whose _patch holds cached, after the transfers in before
TransferOn(agg, cached, before) ==
    \E patch \in AllPatches(scene), closestPt, useSmoothedMesh \in BOOLEAN :
        \E r \in {transferToPatch(scene, agg, cached, patch, <<40, 60>>,
                                 closestPt, useSmoothedMesh, <<40, 60>>)} :
            /\ scene' = r.sc
            /\ last' = [NoLast EXCEPT
                          !.op = "transferToPatch", !.result = r.raised,
                          !.agg = agg, !.pre = scene,
                          !.args = [patch |-> patch, cached |-> r.cached,
                                    before |-> Append(before, patch)]]

\* the first transfer of an aggregate: the one new() made, whose _patch holds
\* the patch new() was given, or one FollicleJoint(obj) found, whose _patch is
\* empty
DoTransferFirst ==
    /\ last.op = "new"
    /\ \E i \in 1..Len(made), cached \in {ThePatch, Nobody} :
          TransferOn(made[i].agg, cached, <<>>)
    /\ UNCHANGED <<made, typeVars, panelVars, callVars, undoVars>>

\* a further transfer of the same aggregate
DoTransferAgain ==
    /\ last.op = "transferToPatch"
    /\ last.result = "none"
    /\ Len(last.args.before) < MaxTransfers
    /\ TransferOn(last.agg, last.args.cached, last.args.before)
    /\ UNCHANGED <<made, typeVars, panelVars, callVars, undoVars>>

TransferChainNext ==
    \/ DoCreateTarget
    \/ DoNewForChain
    \/ DoTransferFirst
    \/ DoTransferAgain

SpecTransferChain == SceneSpecInit /\ [][TransferChainNext]_vars

\* the inputs of the follicle that come from a patch
PatchInputs == {"inputWorldMatrix", "inputSurface", "inputMesh"}

\* the nodes that feed the patch inputs of the follicle of the aggregate
PatchSources(sc, agg) ==
    {c.sn : c \in {d \in sc.conns : d.dn = agg.fol /\ d.da \in PatchInputs}}

\* C26: after any sequence of transferToPatch calls on one aggregate, between
\* NURBS and mesh patches in any order, the world matrix and the geometry
\* inputs of the follicle all come from the latest target patch: no
\* connection from an earlier patch remains
C26_OnlyLatestPatch ==
    (last.op = "transferToPatch" /\ last.result = "none") =>
        PatchSources(scene, last.agg) = {last.args.patch}

-----------------------------------------------------------------------------
(* autoRename of units under groups: C27 *)

\* the groups the user makes, and the units of these scenes
MaxGroups == 2

MaxGroupedUnits == 3

sGrp == <<"g", "#">>

\* the groups of the scene: the transforms the user made for the units
Groups(sc) ==
    {n \in Alive(sc) : /\ TypeOf(sc, n) = "transform"
                       /\ StartsWith(NameOf(sc, n), <<"g">>)}

\* the user makes an empty group at world level, before the units
DoCreateGroup ==
    /\ Built
    /\ made = <<>>
    /\ Cardinality(Groups(scene)) < MaxGroups
    /\ scene' = CreateNode(scene, "transform", Nobody, sGrp, <<>>)
    /\ last' = [NoLast EXCEPT !.op = "createNode"]
    /\ UNCHANGED <<made, typeVars, panelVars, callVars, undoVars>>

DoNewForGroups ==
    NewUnit(MaxGroupedUnits, {<<"a", "#">>}, {T_F, T_FJ}, {<<20, 50>>},
            {FALSE}, {DefaultRatio})

\* the user puts the top node of a unit at world level under a group
DoParentUnit ==
    /\ last.op \in {"new", "edit"}
    /\ \E i \in 1..Len(made), g \in Groups(scene) :
          /\ ParentOf(scene, topObj(made[i].agg)) = Nobody
          /\ scene' = Reparent(scene, topObj(made[i].agg), g)
    /\ last' = [NoLast EXCEPT !.op = "edit"]
    /\ UNCHANGED <<made, typeVars, panelVars, callVars, undoVars>>

\* autoRename(objs, useSelection=False, name=name), objs being the top nodes
\* of some of the units, wherever the user has put them
DoAutoRenameGrouped ==
    /\ last.op \in {"new", "edit"}
    /\ \E units \in UnitLists, name \in AutoNames :
          \E r \in {autoRename(scene,
                               [k \in 1..Len(units) |->
                                   topObj(made[units[k]].agg)],
                               FALSE, name)} :
              /\ scene' = r.sc
              /\ last' = [NoLast EXCEPT
                            !.op = "autoRename", !.result = r.raised,
                            !.pre = scene,
                            !.args = [name |-> name, units |-> units]]
    /\ UNCHANGED <<made, typeVars, panelVars, callVars, undoVars>>

GroupedNext ==
    \/ DoCreateGroup
    \/ DoNewForGroups
    \/ DoParentUnit
    \/ DoAutoRenameGrouped

SpecGrouped == SceneSpecInit /\ [][GroupedNext]_vars

\* the parent of the top node of unit i
TopParent(sc, i) == ParentOf(sc, topObj(made[i].agg))

\* C27: autoRename regroups only batches whose units all have one parent or
\* are all at world level, so the top node of every renamed unit has the
\* parent after the call that it had before it; a batch of units at world
\* level and units under a parent is not re-parented
C27_ParentsKept ==
    AutoDone =>
        \A i \in BatchUnits : TopParent(scene, i) = TopParent(last.pre, i)

-----------------------------------------------------------------------------
(* UI._dockStateChanged and UI.eventFilter: the deferred docking fixes: C30 *)

\* the events posted in one run, by the host and by the panel together
MaxEvents == 4

\* QtCore.Qt.NormalEventPriority and QtCore.Qt.LowEventPriority
EventPriority == [normal |-> 0, low |-> -1]

\* the events the host posts to the dock parent on its own
HostEventTypes == {"ParentChange", "Resize", "Close"}

sCustom == "Custom"

\* the flags of UI.__init__(floating=floating), and the record of what ran
NewDock(floating) ==
    [floating |-> floating, dockParentChanged |-> FALSE,
     claimFocusLater |-> FALSE, fixSizeLater |-> FALSE,
     alreadyClosed |-> FALSE,
     serial |-> 0, notified |-> 0, consumed |-> 0, handled |-> {},
     sinceFix |-> 0,
     ran |-> [type |-> "none", id |-> 0, consumed |-> FALSE, focus |-> FALSE,
              size |-> FALSE, waiting |-> {}, changes |-> 0]]

\* an event to the front of the queue, whatever its priority
postEventUrgent(queue, ev) == <<ev>> \o queue

\* qApp.postEvent(receiver, event, priority): the queue is kept in descending
\* order of priority, and an event goes behind the events of its own priority
postEvent(queue, ev) ==
    LET k == Cardinality({i \in 1..Len(queue) : queue[i].prio >= ev.prio})
    IN  SubSeq(queue, 1, k) \o <<ev>> \o SubSeq(queue, k + 1, Len(queue))

\* the events of higher priority than prio that the queue holds
Ahead(queue, prio) ==
    {queue[i].id : i \in {j \in 1..Len(queue) : queue[j].prio > prio}}

\* _dockStateChanged(): the flags after it; isFloating is what the host
\* answers to self.isFloating()
dockStateChanged(d, isFloating) ==
    [d EXCEPT !.claimFocusLater = TRUE,
              !.fixSizeLater = IF ~d.floating /\ ~isFloating THEN TRUE ELSE @,
              !.floating = isFloating]

\* eventFilter(self.parent(), event): the flags after it, whether the event
\* was consumed (True returned), which fixes ran, and whether close() ran;
\* isDockable and isVisible are what the host answers
eventFilter(d, ev, isDockable, isVisible) ==
    LET focus == /\ d.claimFocusLater
                 /\ d.dockParentChanged
                 /\ isDockable
                 /\ ~isVisible
        \* _dockedTabToTop() raises the tab, adjusts the size itself and
        \* clears _fixSizeLater
        size == ~focus /\ d.fixSizeLater /\ isVisible
    IN  IF ev.type = "ParentChange"
        THEN [d |-> [d EXCEPT !.dockParentChanged = TRUE],
              consumed |-> FALSE, focus |-> FALSE, size |-> FALSE,
              closed |-> FALSE]
        ELSE IF ev.type = sCustom
        THEN [d |-> [d EXCEPT
                       !.claimFocusLater = IF focus THEN FALSE ELSE @,
                       !.dockParentChanged = IF focus THEN FALSE ELSE @,
                       !.fixSizeLater = IF focus \/ size THEN FALSE ELSE @],
              consumed |-> TRUE, focus |-> focus, size |-> focus \/ size,
              closed |-> FALSE]
        ELSE IF ev.type = "Close" /\ ~d.alreadyClosed
        THEN [d |-> [d EXCEPT !.alreadyClosed = TRUE],
              consumed |-> FALSE, focus |-> FALSE, size |-> FALSE,
              closed |-> TRUE]
        ELSE [d |-> d, consumed |-> FALSE, focus |-> FALSE, size |-> FALSE,
              closed |-> FALSE]

DockInit ==
    /\ panel = NewPanel
    /\ settings = <<>>
    /\ dock \in {NewDock(floating) : floating \in BOOLEAN}
    /\ eventQueue = <<>>

DockSpecInit == DockInit /\ TypeIdle /\ SceneIdle /\ UndoIdle /\ CallIdle

\* the host posts an event of its own to the dock parent
DoHostPost ==
    /\ dock.serial < MaxEvents
    /\ \E type \in HostEventTypes :
          eventQueue' =
             postEvent(eventQueue,
                       [type |-> type, prio |-> EventPriority.normal,
                        id |-> dock.serial + 1, ahead |-> {}])
    /\ dock' = [dock EXCEPT !.serial = @ + 1]
    /\ UNCHANGED <<panel, settings, typeVars, sceneVars, undoVars, callVars>>

\* the host runs the visible-change command of the workspace control:
\* _dockStateChanged posts its event with priority LowEventPriority-1
DoDockStateChanged ==
    /\ dock.serial < MaxEvents
    /\ \E isFloating \in BOOLEAN :
          dock' = [dockStateChanged(dock, isFloating) EXCEPT
                     !.serial = @ + 1, !.notified = @ + 1]
    /\ eventQueue' =
          postEvent(eventQueue,
                    [type |-> sCustom, prio |-> EventPriority.low - 1,
                     id |-> dock.serial + 1,
                     ahead |-> Ahead(eventQueue, EventPriority.low - 1)])
    /\ UNCHANGED <<panel, settings, typeVars, sceneVars, undoVars, callVars>>

\* the host's event loop hands the first event of the queue to the filter of
\* the dock parent; close() stores the settings
DoDeliver ==
    /\ eventQueue # <<>>
    /\ \E isDockable, isVisible \in BOOLEAN :
          \E r \in {eventFilter(dock, Head(eventQueue), isDockable,
                                isVisible)} :
             /\ dock' =
                   [r.d EXCEPT
                      !.handled = @ \cup {Head(eventQueue).id},
                      !.consumed = IF Head(eventQueue).type = sCustom
                                      /\ r.consumed
                                   THEN @ + 1 ELSE @,
                      !.sinceFix =
                          IF r.focus THEN 0
                          ELSE IF Head(eventQueue).type = "ParentChange"
                          THEN 1 ELSE @,
                      !.ran = [type |-> Head(eventQueue).type,
                               id |-> Head(eventQueue).id,
                               consumed |-> r.consumed, focus |-> r.focus,
                               size |-> r.size,
                               waiting |->
                                   Head(eventQueue).ahead \ dock.handled,
                               changes |-> dock.sinceFix]]
             /\ settings' = IF r.closed THEN getUIVals(panel) ELSE settings
    /\ eventQueue' = Tail(eventQueue)
    /\ UNCHANGED <<panel, typeVars, sceneVars, undoVars, callVars>>

DockNext ==
    \/ DoHostPost
    \/ DoDockStateChanged
    \/ DoDeliver

SpecDock == DockSpecInit /\ [][DockNext]_vars

\* the deferred events the queue holds
Deferred == {i \in 1..Len(eventQueue) : eventQueue[i].type = sCustom}

\* C30: every dock-state-change notification posts exactly one deferred event
\* of a priority below low to the dock parent; the focus fix and the width
\* fix run only in handling such an event, after every event of higher
\* priority that was queued when it was posted has been handled; the filter
\* always consumes the deferred event; and the focus fix runs only if a
\* parent change was recorded since the last focus fix
C30_DeferredFix ==
    /\ Cardinality(Deferred) + dock.consumed = dock.notified
    /\ \A i \in Deferred : eventQueue[i].prio < EventPriority.low
    /\ (dock.ran.focus \/ dock.ran.size) =>
          dock.ran.type = sCustom /\ dock.ran.waiting = {}
    /\ dock.ran.type = sCustom => dock.ran.consumed
    /\ dock.ran.focus => dock.ran.changes > 0

\* a docking: the parent change the host queued was handled first, then the
\* deferred event, and the focus fix ran
C30_Witness ==
    /\ dock.ran.type = sCustom
    /\ dock.ran.focus
    /\ \E e \in dock.handled : e < dock.ran.id
    /\ dock.notified = 1

=============================================================================
